---- MODULE Spec2Model ----
(***************************************************************************)
(* Task execution pipeline of api.agent.teamorange.dev:                    *)
(*   - guardrail (patterns.ts, analyzer in unified-executor.ts:631-841)    *)
(*   - session store (session/manager.ts)                                  *)
(*   - execution orchestrator (unified-executor.ts:51-220)                 *)
(*   - entry points (webhook email route, api execute route, debug route)  *)
(*                                                                         *)
(* Confidences are integers in hundredths (0.95 is 95).                    *)
(* A prompt is a sequence of text fragments; a regular expression of the   *)
(* source is the set of fragments it matches, together with its anchoring  *)
(* (^ : first fragment, $ : last fragment, none : any position).           *)
(***************************************************************************)
EXTENDS Integers, Sequences, FiniteSets, TLC

\* ------------------------------------------------------------------ bounds
MaxPromptLen == 2

\* =====================================================================
\* Guardrail: patterns.ts
\* =====================================================================

\* Text fragments prompts are built from.
Fragments ==
  { "hallo", "was", "danke", "?", "zeig mir die",
    "rm -rf", "entferne alle menues", "redesign website", "jailbreak",
    "ueberweise 100", "ssh key", "/tmp/x" }

Prompts == UNION { [1..n -> Fragments] : n \in 1..MaxPromptLen }

\* pattern.test(prompt) for an unanchored pattern
Test(pattern, prompt) == \E i \in DOMAIN prompt : prompt[i] \in pattern

\* THREAT_PATTERNS, in catalog order; each pattern is the set of fragments
\* its regular expression matches.
THREAT_PATTERNS ==
  << [ category |-> "DESTRUCTIVE", severity |-> "high",
       patterns |-> << {"rm -rf"},                   \* /\brm\s+-rf\b/i
                       {"entferne alle menues"} >> ],\* /\bentfern(e|en)?\s+(alle|...)/i
     [ category |-> "PROMPT_INJECTION", severity |-> "high",
       patterns |-> << {"jailbreak"} >> ],           \* /\bjailbreak\b/i
     [ category |-> "COMPETENCE_EXCEEDED", severity |-> "medium",
       patterns |-> << {"redesign website"},         \* /\b(redesign|...)\b.*\b(website|...)\b/i
                       {"entferne alle menues"} >> ],\* /entfern(e|en)?\s+(alle\s+)?(menues?|...)/i
     [ category |-> "FINANCIAL_RISK", severity |-> "high",
       patterns |-> << {"ueberweise 100"} >> ],      \* /ueberweis(e|en|ung)\s+\d+/i
     [ category |-> "SECURITY_RISK", severity |-> "high",
       patterns |-> << {"ssh key"} >> ] >>           \* /\b(ssh|private)[\s-]?key\b/i

NoMatch ==
  [ matched |-> FALSE, category |-> "none", severity |-> "none", confidence |-> 0 ]

\* threat.severity === 'high' ? 0.95 : threat.severity === 'medium' ? 0.8 : 0.6
severityConfidence(severity) ==
  IF severity = "high" THEN 95 ELSE IF severity = "medium" THEN 80 ELSE 60

\* variant: a later catalog entry overrides an earlier one
RECURSIVE scanThreatsLastWins(_, _)
scanThreatsLastWins(prompt, c) ==
  IF c > Len(THREAT_PATTERNS) THEN NoMatch
  ELSE LET threat == THREAT_PATTERNS[c]
           rest == scanThreatsLastWins(prompt, c + 1) IN
       IF rest.matched THEN rest
       ELSE IF \E r \in DOMAIN threat.patterns : Test(threat.patterns[r], prompt)
       THEN [ matched |-> TRUE, category |-> threat.category,
              severity |-> threat.severity,
              confidence |-> severityConfidence(threat.severity) ]
       ELSE NoMatch

\* the outer for-loop of matchThreatPatterns from catalog position c on
RECURSIVE scanThreats(_, _)
scanThreats(prompt, c) ==
  IF c > Len(THREAT_PATTERNS) THEN NoMatch
  ELSE LET threat == THREAT_PATTERNS[c] IN
       IF \E r \in DOMAIN threat.patterns : Test(threat.patterns[r], prompt)
       THEN [ matched |-> TRUE, category |-> threat.category,
              severity |-> threat.severity,
              confidence |-> severityConfidence(threat.severity) ]
       ELSE scanThreats(prompt, c + 1)

matchThreatPatterns(prompt) == scanThreats(prompt, 1)

\* safePatterns.some(p => p.test(prompt.trim()))
isObviouslySafe(prompt) ==
  \/ prompt[1] = "hallo"                       \* /^(hallo|hi|guten ...|servus|moin)/i
  \/ prompt[1] = "was" /\ Len(prompt) >= 2     \* /^(wie|was|wer|...)\s/i
  \/ prompt[1] = "danke"                       \* /^(danke|vielen\s+dank|merci)/i
  \/ prompt[Len(prompt)] = "?"                 \* /\?([\s\n]*$)/
  \/ prompt[1] = "zeig mir die"                \* /^(zeig|liste|...)\s+(mir\s+)?(die|den|das|alle)/i

\* =====================================================================
\* Guardrail: analyzer (unified-executor.ts:631-841)
\* =====================================================================

\* DEFAULT_CONFIG.patternConfidenceThreshold (0.9); no caller overrides it
patternConfidenceThreshold == 90

NotANumber == -1

\* What the text-generation endpoint does with one request.
\*   timeout     the aiTimeoutMs timer wins the race
\*   apiError    messages.create rejects
\*   prose       text without a {..."decision"...} object
\*   brokenJson  the regular expression matches, JSON.parse throws
\*   json        an object; decision and confidence are whatever it holds
AiOutcomes ==
  { [ kind |-> k, decision |-> "absent", confidence |-> NotANumber ] :
      k \in {"timeout", "apiError", "prose", "brokenJson"} }
  \cup
  [ kind : {"json"},
    decision : {"APPROVED", "BLOCKED", "MAYBE", "absent"},
    confidence : {NotANumber, 30, 90, 150} ]

NoVerdict ==
  [ verdict |-> FALSE, threw |-> FALSE, decision |-> "none", confidence |-> 0 ]

AiThrown ==
  [ verdict |-> FALSE, threw |-> TRUE, decision |-> "none", confidence |-> 0 ]

\* the try block of analyzeWithAI (lines 704-737)
aiTryBlock(ai) ==
  IF ai.kind \in {"timeout", "apiError"} THEN AiThrown
  ELSE IF ai.kind = "prose" THEN NoVerdict              \* if (!jsonMatch) return null
  ELSE IF ai.kind = "brokenJson" THEN AiThrown          \* JSON.parse throws
  ELSE [ verdict |-> TRUE, threw |-> FALSE,
         decision |-> IF ai.decision = "BLOCKED" THEN "BLOCKED" ELSE "APPROVED",
         confidence |-> IF ai.confidence # NotANumber THEN ai.confidence ELSE 80 ]

\* variant: no catch block around the call
analyzeWithAI_noCatch(hasApiKey, ai) ==
  IF ~hasApiKey THEN NoVerdict ELSE aiTryBlock(ai)

\* analyzeWithAI: null without a client, null from the catch block
analyzeWithAI(hasApiKey, ai) ==
  IF ~hasApiKey THEN NoVerdict
  ELSE LET r == aiTryBlock(ai) IN
       IF r.threw THEN NoVerdict ELSE r

NotCalled ==
  [ verdict |-> FALSE, threw |-> FALSE, decision |-> "notcalled", confidence |-> 0 ]

\* variant: the safe pre-check answers with the default confidence
safeApproval_defaultConfidence ==
  [ threw |-> FALSE, decision |-> "APPROVED", reason |-> "none", confidence |-> 70,
    analysisMethod |-> "pattern" ]

\* lines 761-769: the result of the safe pre-check
safeApproval ==
  [ threw |-> FALSE, decision |-> "APPROVED", reason |-> "none", confidence |-> 85,
    analysisMethod |-> "pattern" ]

\* lines 774-791: the result of a pattern match at or above the threshold
patternBlock(patternResult) ==
  [ threw |-> FALSE, decision |-> "BLOCKED", reason |-> patternResult.category,
    confidence |-> patternResult.confidence, analysisMethod |-> "pattern" ]

\* variant: the verdict is spread into the result, its method left as it is
aiAdjudication_keepMethod(patternResult, aiResult) ==
  [ threw |-> FALSE, decision |-> aiResult.decision, reason |-> "ai",
    confidence |-> aiResult.confidence, analysisMethod |-> "ai" ]

\* lines 800-815: { ...aiResult, analysisMethod: matched ? 'hybrid' : 'ai' }
aiAdjudication(patternResult, aiResult) ==
  [ threw |-> FALSE, decision |-> aiResult.decision, reason |-> "ai",
    confidence |-> aiResult.confidence,
    analysisMethod |-> IF patternResult.matched THEN "hybrid" ELSE "ai" ]

\* lines 822-840: the fallback
fallbackApproval(patternResult) ==
  [ threw |-> FALSE, decision |-> "APPROVED", reason |-> "none",
    confidence |-> IF patternResult.matched THEN 50 ELSE 70,
    analysisMethod |-> "pattern" ]

\* an exception of analyzeWithAI would leave analyzeRequest through its await
guardThrown ==
  [ threw |-> TRUE, decision |-> "none", reason |-> "none", confidence |-> 0,
    analysisMethod |-> "none" ]

\* analyzeRequest(prompt, cfg): result is what the caller gets; aiCalls and
\* aiResult record the call of analyzeWithAI the run made
analyzeRequest(prompt, useAiAnalysis, hasApiKey, ai) ==
  LET patternResult == matchThreatPatterns(prompt)
      aiResult == analyzeWithAI(hasApiKey, ai)
  IN
  IF isObviouslySafe(prompt)
  THEN [ result |-> safeApproval, aiCalls |-> 0, aiResult |-> NotCalled ]
  ELSE IF patternResult.matched /\ patternResult.confidence >= patternConfidenceThreshold
  THEN [ result |-> patternBlock(patternResult), aiCalls |-> 0, aiResult |-> NotCalled ]
  ELSE IF ~useAiAnalysis
  THEN [ result |-> fallbackApproval(patternResult), aiCalls |-> 0, aiResult |-> NotCalled ]
  ELSE IF aiResult.threw
  THEN [ result |-> guardThrown, aiCalls |-> 1, aiResult |-> aiResult ]
  ELSE IF aiResult.verdict
  THEN [ result |-> aiAdjudication(patternResult, aiResult),
         aiCalls |-> 1, aiResult |-> aiResult ]
  ELSE [ result |-> fallbackApproval(patternResult), aiCalls |-> 1, aiResult |-> aiResult ]

\* =====================================================================
\* Session store: session/manager.ts
\* =====================================================================

NumSessionOps == 2

SessionIds == {"a1b2c3", "d4e5f6"}      \* values of generateSessionId()
MessageIds == {"m1", "m2"}
ClaudeIds == {"claude-1"}
NoClaudeId == "none"

\* getSessionPaths: the two directories of a session
sessionDirs(sessionId) == { <<sessionId, "workspace">>, <<sessionId, "claude-home">> }

EmptyIndex == [ sessions |-> [x \in {} |-> x], byMessageId |-> [x \in {} |-> x] ]

\* obj[key] = value on a JavaScript object
Put(obj, key, value) ==
  [ k \in DOMAIN obj \cup {key} |-> IF k = key THEN value ELSE obj[k] ]

\* loadIndex: the parsed file, or the empty index when reading throws
loadIndex(file) ==
  IF file.state = "ok" THEN file.content ELSE EmptyIndex

\* saveIndex: writeFile replaces the whole file
saveIndex(index) == [ state |-> "ok", content |-> index ]

\* variant: the session is stored without its byMessageId entry
indexWithSession_noMessageEntry(index, sessionId, agentId, messageId, now) ==
  [ index EXCEPT !.sessions =
      Put(index.sessions, sessionId,
          [ id |-> sessionId, agentId |-> agentId,
            originalMessageId |-> messageId, messageIds |-> <<messageId>>,
            claudeSessionId |-> NoClaudeId, lastActivityAt |-> now ]) ]

\* createSession lines 135-146 and 177-178 on a loaded index; now is the
\* value of new Date()
indexWithSession(index, sessionId, agentId, messageId, now) ==
  [ sessions |->
      Put(index.sessions, sessionId,
          [ id |-> sessionId, agentId |-> agentId,
            originalMessageId |-> messageId, messageIds |-> <<messageId>>,
            claudeSessionId |-> NoClaudeId, lastActivityAt |-> now ]),
    byMessageId |-> Put(index.byMessageId, messageId, sessionId) ]

InSeq(seq, x) == \E i \in DOMAIN seq : seq[i] = x

\* variant: the message id is entered in byMessageId but not in the thread
indexWithMessage_notInThread(index, sessionId, messageId, now) ==
  [ sessions |->
      Put(index.sessions, sessionId,
          [index.sessions[sessionId] EXCEPT !.lastActivityAt = now]),
    byMessageId |-> Put(index.byMessageId, messageId, sessionId) ]

\* variant: the message id is pushed without the includes() test
indexWithMessage_alwaysPush(index, sessionId, messageId, now) ==
  LET session == index.sessions[sessionId] IN
  [ sessions |->
      Put(index.sessions, sessionId,
          [session EXCEPT !.messageIds = Append(@, messageId), !.lastActivityAt = now]),
    byMessageId |-> Put(index.byMessageId, messageId, sessionId) ]

\* addMessageToSession lines 197-206 on a loaded index that has the session
indexWithMessage(index, sessionId, messageId, now) ==
  LET session == index.sessions[sessionId]
      ids == IF InSeq(session.messageIds, messageId)
             THEN session.messageIds
             ELSE Append(session.messageIds, messageId)
  IN [ sessions |->
         Put(index.sessions, sessionId,
             [session EXCEPT !.messageIds = ids, !.lastActivityAt = now]),
       byMessageId |-> Put(index.byMessageId, messageId, sessionId) ]

\* updateClaudeSessionId line 223 on a loaded index that has the session
indexWithClaudeId(index, sessionId, claudeSessionId) ==
  [ index EXCEPT !.sessions =
      Put(index.sessions, sessionId,
          [index.sessions[sessionId] EXCEPT !.claudeSessionId = claudeSessionId]) ]

SessionOps ==
  [ kind : {"createSession"}, sessionId : SessionIds, messageId : MessageIds,
    claudeSessionId : {NoClaudeId} ]
  \cup
  [ kind : {"addMessageToSession"}, sessionId : SessionIds, messageId : MessageIds,
    claudeSessionId : {NoClaudeId} ]
  \cup
  [ kind : {"updateClaudeSessionId"}, sessionId : SessionIds, messageId : {"none"},
    claudeSessionId : ClaudeIds ]

NoOp ==
  [ kind |-> "none", sessionId |-> "none", messageId |-> "none",
    claudeSessionId |-> NoClaudeId ]

\* the mutation an operation applies between its loadIndex and its saveIndex
mutateIndex(index, op, now) ==
  IF op.kind = "createSession"
  THEN indexWithSession(index, op.sessionId, "test", op.messageId, now)
  ELSE IF op.kind = "addMessageToSession"
  THEN indexWithMessage(index, op.sessionId, op.messageId, now)
  ELSE indexWithClaudeId(index, op.sessionId, op.claudeSessionId)

\* =====================================================================
\* Execution orchestrator: executeTask (unified-executor.ts:51-220)
\* =====================================================================

NumExecs == 2
TimeoutTicks == 2                        \* request.resources.timeoutMs, in clock ticks

Execs == 1..NumExecs

\* `claude-agent-${agentConfig.id}-${executionId.substring(0, 8)}`: two
\* execution ids may share their first 8 characters
ContainerNames == {"claude-agent-test-0a1b2c3d", "claude-agent-test-4e5f6a7b"}

\* foreign: a call other than the creating one stopped or removed it
NoContainer == [ state |-> "none", name |-> "none", exitCode |-> -1, foreign |-> FALSE ]

\* states in which the runtime still holds the container
Live == {"created", "running", "exited"}

\* the container docker.getContainer(name) addresses, if there is one
byName(cs, name) == { c \in DOMAIN cs : cs[c].state \in Live /\ cs[c].name = name }

\* container.stop({ t: 5 }).catch(() => {}) through the name
stopByName(cs, name, e) ==
  [ c \in DOMAIN cs |->
      IF c \in byName(cs, name) /\ cs[c].state = "running"
      THEN [cs[c] EXCEPT !.state = "exited", !.exitCode = 137,
                         !.foreign = @ \/ c # e]
      ELSE cs[c] ]

\* variant: the failure path leaves the container to the runtime
removeByName_skipped(cs, name, e) == cs

\* container.remove({ force: true }).catch(() => {}) through the name
removeByName(cs, name, e) ==
  [ c \in DOMAIN cs |->
      IF c \in byName(cs, name)
      THEN [cs[c] EXCEPT !.state = "removed", !.name = "none", !.foreign = @ \/ c # e]
      ELSE cs[c] ]

\* container.remove({ force: true }) through the handle createContainer gave,
\* inside try/catch (lines 159-164)
removeByHandle(cs, c) ==
  IF cs[c].state \in Live
  THEN [cs EXCEPT ![c].state = "removed", ![c].name = "none"]
  ELSE cs

\* ---------------------------------------------------------------------
\* The output of the sandbox and its parsers
\* ---------------------------------------------------------------------

MaxOutputLen == 3                        \* lines an SDK sandbox prints
MaxAttemptLen == 2                       \* lines one run of the claude command prints
RawOutputTail == 2                       \* slice(-5000), in lines
SummaryTail == 1                         \* slice(-3000), in lines
ErrorTail == 1                           \* slice(-2000), in lines

\* lines a sandbox prints
TextLine == "Task done"
CommitLine == " create mode 100644 a.txt"
SdkResultTrue == "{\"success\":true,\"sessionId\":\"s1\",\"output\":\"ok\"}"
SdkResultFalse == "{\"success\":false,\"sessionId\":\"s1\",\"output\":\"\",\"error\":\"Agent failed: error_max_turns\"}"
SdkResultNested == "{\"success\":false,\"sessionId\":\"s1\",\"output\":\"\",\"toolCalls\":[{\"tool\":\"Bash\"}]}"
NotJson == "{\"success\"}"
ClaudeResult == "{\"type\":\"result\",\"result\":\"done\"}"
AuthFailureLine == "API Error: 401 authentication_error"
\* the lines the entry script prints itself: the two [AUTH] lines, the marker
ScriptLines ==
  [ attempt |-> "[AUTH] Attempting OAuth authentication...",
    fallback |-> "[AUTH] OAuth failed, falling back to API key...",
    noPrompt |-> "Error: AGENT_PROMPT environment variable is required" ]
AuthMarker(method) ==
  IF method = "oauth" THEN "[AUTH_METHOD:oauth]" ELSE "[AUTH_METHOD:api_key]"

SeqsUpTo(S, n) == UNION { [1..k -> S] : k \in 0..n }

\* the last n elements of a sequence: s.slice(-n)
sliceLast(s, n) == SubSeq(s, IF Len(s) > n THEN Len(s) - n + 1 ELSE 1, Len(s))

\* The logs of a container: lines, each behind the header of its frame of the
\* multiplexed stream when the stream is framed
NoOutput == [ framed |-> FALSE, lines |-> <<>> ]

\* output.slice(-n)
sliceOutput(output, n) == [output EXCEPT !.lines = sliceLast(output.lines, n)]

\* lines 346-351: the control characters at the start of every line go
stripDockerStreamHeaders(output) == [output EXCEPT !.framed = FALSE]

\* --- the entry script of the sandbox image (part_005) ---

ClaudeLines == {TextLine, CommitLine, ClaudeResult, AuthFailureLine}

\* one run of the claude command: its exit code and what it wrote
Attempts == [ exitCode : {0, 1}, out : SeqsUpTo(ClaudeLines, MaxAttemptLen) ]

NoAttempt == [ exitCode |-> -1, out |-> <<>> ]

\* grep -qi "unauthorized\|401\|authentication\|login required\|token expired"
grepAuthFailure(out) == \E i \in 1..Len(out) : out[i] = AuthFailureLine

\* part_005:67-101: the first attempt uses the OAuth credentials; when it
\* fails and an API key is there, the command is run again with the key; the
\* marker names the method of the run whose output is printed
run_claude_with_fallback(first, second, hasApiKey) ==
  LET fallback == (first.exitCode # 0 \/ grepAuthFailure(first.out)) /\ hasApiKey
      final == IF fallback THEN second ELSE first
      method == IF fallback THEN "api_key" ELSE "oauth"
  IN [ exitCode |-> final.exitCode,
       method |-> method,
       fallback |-> fallback,
       lines |-> <<ScriptLines.attempt>>
                 \o (IF fallback THEN <<ScriptLines.fallback>> ELSE <<>>)
                 \o <<AuthMarker(method)>> \o final.out ]

\* part_005:47-51 and 103-139: without AGENT_PROMPT the script ends with 1
\* before the claude command is run
entrypoint(hasPrompt, first, second, hasApiKey) ==
  IF ~hasPrompt
  THEN [ exitCode |-> 1, method |-> "none", fallback |-> FALSE,
         lines |-> <<ScriptLines.noPrompt>> ]
  ELSE run_claude_with_fallback(first, second, hasApiKey)

\* part_005:7-17 and 86: /home/agent/.claude is the session's claude-home.
\* SKIP_CREDENTIAL_SETUP is not among the variables executeTask passes, so
\* the script copies the credentials of /host-claude over, when there are
\* any; when it falls back to the API key it removes the file
credentialsAfter(present, hostHas, fallback) ==
  IF fallback THEN FALSE ELSE present \/ hostHas

\* --- parseAgentOutput (lines 356-429) ---

\* variant: the marker is not read
extractAuthMethod_oauth(output) == "oauth"

\* lines 356-359: the first [AUTH_METHOD:...] marker of the output
extractAuthMethod(output) ==
  LET IsAuthMarker(line) == \E m \in {"oauth", "api_key"} : line = AuthMarker(m)
      marks == SelectSeq(output.lines, IsAuthMarker)
  IN IF marks = <<>> THEN "undefined"
     ELSE IF marks[1] = AuthMarker("oauth") THEN "oauth" ELSE "api_key"

\* /\{"type":"result"[\s\S]*\}/ matches from the first result object to the
\* last closing brace of the output; JSON.parse takes it when nothing follows
\* the object
claudeJson(lines) ==
  LET HasBrace(line) ==
        line \in {SdkResultTrue, SdkResultFalse, SdkResultNested, NotJson, ClaudeResult}
      starts == { i \in 1..Len(lines) : lines[i] = ClaudeResult }
      ends == { i \in 1..Len(lines) : HasBrace(lines[i]) }
  IN IF starts = {} THEN "no match"
     ELSE LET first == CHOOSE i \in starts : \A j \in starts : i <= j
              last == CHOOSE i \in ends : \A j \in ends : i >= j
          IN IF first = last THEN "parsed" ELSE "throws"

\* /(?:create|modify|delete) mode \d+ (.+)/g over the output
commitFiles(lines) ==
  LET IsCommitLine(line) == line = CommitLine
  IN [ i \in 1..Len(SelectSeq(lines, IsCommitLine)) |-> "a.txt" ]

\* lines 414-421: of the lines here, those that start with '[' are dropped
IsResponseLine(line) ==
  line \notin {ScriptLines.attempt, ScriptLines.fallback,
               AuthMarker("oauth"), AuthMarker("api_key")}

\* lines 364-429
parseAgentOutput(output) ==
  LET cleanOutput == stripDockerStreamHeaders(output)
      authMethod == extractAuthMethod(output)
      responseLines == SelectSeq(cleanOutput.lines, IsResponseLine)
  IN IF claudeJson(cleanOutput.lines) = "parsed"
     THEN [ success |-> TRUE,
            summary |-> <<"done">>,
            filesModified |-> commitFiles(output.lines),
            authMethod |-> authMethod,
            rawOutput |-> sliceOutput(output, RawOutputTail),
            error |-> <<>> ]
     ELSE [ success |-> TRUE,
            summary |-> IF responseLines = <<>> THEN <<"Aufgabe abgeschlossen">>
                        ELSE sliceLast(responseLines, SummaryTail),
            filesModified |-> <<>>,
            authMethod |-> authMethod,
            rawOutput |-> sliceOutput(output, RawOutputTail),
            error |-> <<>> ]

\* --- parseSdkOutput (lines 597-628) ---

SdkLines ==
  {TextLine, CommitLine, SdkResultTrue, SdkResultFalse, SdkResultNested, NotJson}

\* /\{[^{}]*"success"[^{}]*\}/g: a pair of braces with "success" and no
\* other brace between them
sdkMatch(line) == line \in {SdkResultTrue, SdkResultFalse, NotJson}

\* JSON.parse of the last match, when there is one
sdkParsed(cleanOutput) ==
  LET jsonMatches == SelectSeq(cleanOutput.lines, sdkMatch)
      lastJson == jsonMatches[Len(jsonMatches)]
      nothing == [ ok |-> FALSE, success |-> FALSE, output |-> "", error |-> "" ]
  IN IF jsonMatches = <<>> THEN nothing
     ELSE IF lastJson = SdkResultTrue
     THEN [ ok |-> TRUE, success |-> TRUE, output |-> "ok", error |-> "" ]
     ELSE IF lastJson = SdkResultFalse
     THEN [ ok |-> TRUE, success |-> FALSE, output |-> "",
            error |-> "Agent failed: error_max_turns" ]
     ELSE nothing

\* lines 610-616
sdkResult(parsed, cleanOutput) ==
  [ success |-> parsed.success,
    summary |-> IF parsed.output # "" THEN <<parsed.output>>
                ELSE IF parsed.error # "" THEN <<parsed.error>>
                ELSE <<"Task completed">>,
    filesModified |-> <<>>,
    authMethod |-> "api_key",
    rawOutput |-> sliceOutput(cleanOutput, RawOutputTail),
    error |-> <<>> ]

\* lines 621-627
sdkTextResult(success, cleanOutput) ==
  [ success |-> success,
    summary |-> IF cleanOutput.lines = <<>> THEN <<"Task completed">>
                ELSE sliceLast(cleanOutput.lines, SummaryTail),
    filesModified |-> <<>>,
    authMethod |-> "api_key",
    rawOutput |-> sliceOutput(cleanOutput, RawOutputTail),
    error |-> <<>> ]

\* variant: output without a result object that parses counts as a failure
parseSdkOutput_strict(output) ==
  LET cleanOutput == stripDockerStreamHeaders(output)
      parsed == sdkParsed(cleanOutput)
  IN IF parsed.ok THEN sdkResult(parsed, cleanOutput)
     ELSE sdkTextResult(FALSE, cleanOutput)

\* lines 597-628
parseSdkOutput(output) ==
  LET cleanOutput == stripDockerStreamHeaders(output)
      parsed == sdkParsed(cleanOutput)
  IN IF parsed.ok THEN sdkResult(parsed, cleanOutput)
     ELSE sdkTextResult(TRUE, cleanOutput)

\* variant: the exit code is not looked at
buildResult_ignoreExit(isLegacyImage, exitCode, output) ==
  IF isLegacyImage THEN parseAgentOutput(output) ELSE parseSdkOutput(output)

\* lines 167-180
buildResult(isLegacyImage, exitCode, output) ==
  IF exitCode # 0
  THEN [ success |-> FALSE,
         summary |-> <<"Agent exited with error">>,
         filesModified |-> <<>>,
         authMethod |-> "undefined",
         rawOutput |-> sliceOutput(output, RawOutputTail),
         error |-> sliceLast(output.lines, ErrorTail) ]
  ELSE IF isLegacyImage THEN parseAgentOutput(output) ELSE parseSdkOutput(output)

NoResult ==
  [ success |-> FALSE, summary |-> <<>>, filesModified |-> <<>>,
    authMethod |-> "undefined", rawOutput |-> NoOutput, error |-> <<>> ]

NoStatus == [ status |-> "absent", success |-> FALSE, error |-> "none" ]

\* lines 56-66
runningStatus == [ status |-> "running", success |-> FALSE, error |-> "none" ]

\* lines 183-185
finalStatus(result) ==
  [ status |-> IF result.success THEN "completed" ELSE "failed",
    success |-> result.success, error |-> "none" ]

\* variant: the catch block reports without the cause
catchStatus_noCause(message) ==
  [ status |-> "failed", success |-> FALSE, error |-> "Unknown error" ]

\* lines 201-208: status.result.error = error.message
catchStatus(message) ==
  [ status |-> "failed", success |-> FALSE, error |-> message ]

\* what the sandbox printed: a final result object with success true or
\* false, or text without one
Outputs ==
  { [ framed |-> TRUE, lines |-> <<line>> ] :
      line \in {SdkResultTrue, SdkResultFalse, TextLine} }

\* the container name of the call, and the session whose workspace and
\* claude-home buildBindMounts mounts (lines 262-276); the calls looked at
\* are those of one session
ExecRequests == [ name : ContainerNames, sessionId : {"a1b2c3"} ]

NoRequest == [ name |-> "none", sessionId |-> "none" ]

\* =====================================================================
\* Entry points: webhook email route (processEmailTask), api execute route,
\* debug execute route
\* =====================================================================

MaxRequests == 2

\* variant: the lookup through byMessageId never finds a session
findSessionByMessageId_null(index, messageId) == "none"

\* findSessionByMessageId on a loaded index
findSessionByMessageId(index, messageId) ==
  IF messageId \in DOMAIN index.byMessageId
     /\ index.byMessageId[messageId] \in DOMAIN index.sessions
  THEN index.byMessageId[messageId]
  ELSE "none"

\* findSessionById on a loaded index
findSessionById(index, sessionId) ==
  IF sessionId \in DOMAIN index.sessions THEN sessionId ELSE "none"

\* A subject line is a sequence of pieces: words, and bracketed tags with the
\* six characters they carry. /\[#(?:to-)?([a-f0-9]{6})\]/i matches either
\* form of tag in either case and match[1] is the text as it stands.
SubjectPieces ==
  { [ text |-> "Re: Aufgabe", tag |-> "none" ],
    [ text |-> "[#to-a1b2c3]", tag |-> "a1b2c3" ],
    [ text |-> "[#d4e5f6]", tag |-> "d4e5f6" ],
    [ text |-> "[#TO-A1B2C3]", tag |-> "A1B2C3" ] }

Piece(text) == CHOOSE piece \in SubjectPieces : piece.text = text

Subjects ==
  { <<"Re: Aufgabe">>, <<"Re: Aufgabe", "[#to-a1b2c3]">>,
    <<"[#d4e5f6]", "[#to-a1b2c3]">>, <<"Re: Aufgabe", "[#TO-A1B2C3]">> }

\* extractSessionIdFromSubject: the first match of the subject, or null
extractSessionIdFromSubject(subject) ==
  LET tagged == { i \in DOMAIN subject : Piece(subject[i]).tag # "none" } IN
  IF tagged = {} THEN "none"
  ELSE Piece(subject[CHOOSE i \in tagged : \A j \in tagged : i <= j]).tag

\* variant: the subject tag is looked up before the In-Reply-To header
getOrCreateSession_tagFirst(file, agentId, messageId, inReplyTo, subject, newId, now) ==
  LET tag == extractSessionIdFromSubject(subject)
      byReply == IF inReplyTo = "none" THEN "none"
                 ELSE findSessionByMessageId(loadIndex(file), inReplyTo)
      byTag == IF tag = "none" THEN "none" ELSE findSessionById(loadIndex(file), tag)
  IN
  IF byTag # "none"
  THEN [ sessionId |-> byTag, isNew |-> FALSE,
         file |-> saveIndex(indexWithMessage(loadIndex(file), byTag, messageId, now)) ]
  ELSE IF byReply # "none"
  THEN [ sessionId |-> byReply, isNew |-> FALSE,
         file |-> saveIndex(indexWithMessage(loadIndex(file), byReply, messageId, now)) ]
  ELSE [ sessionId |-> newId, isNew |-> TRUE,
         file |-> saveIndex(indexWithSession(loadIndex(file), newId, agentId, messageId, now)) ]

\* getOrCreateSession, run without another session operation in between;
\* newId is the value generateSessionId() returns if a session is created
getOrCreateSession(file, agentId, messageId, inReplyTo, subject, newId, now) ==
  LET tag == extractSessionIdFromSubject(subject)
      byReply == IF inReplyTo = "none" THEN "none"
                 ELSE findSessionByMessageId(loadIndex(file), inReplyTo)
      byTag == IF tag = "none" THEN "none" ELSE findSessionById(loadIndex(file), tag)
  IN
  IF byReply # "none"
  THEN [ sessionId |-> byReply, isNew |-> FALSE,
         file |-> saveIndex(indexWithMessage(loadIndex(file), byReply, messageId, now)) ]
  ELSE IF byTag # "none"
  THEN [ sessionId |-> byTag, isNew |-> FALSE,
         file |-> saveIndex(indexWithMessage(loadIndex(file), byTag, messageId, now)) ]
  ELSE [ sessionId |-> newId, isNew |-> TRUE,
         file |-> saveIndex(indexWithSession(loadIndex(file), newId, agentId, messageId, now)) ]

\* variant: a rejecting classification does not end the handler
guardRejects_never(decision) == FALSE

\* part_020:138-183 and debug.ts:257-291: BLOCKED and ESCALATE end the
\* handler before executeTask
guardRejects(decision) == decision \in {"BLOCKED", "ESCALATE"}

EntryPrompts ==
  { <<"hallo", "rm -rf">>, <<"rm -rf", "/tmp/x">>, <<"redesign website">> }

EntryAi ==
  { [ kind |-> "timeout", decision |-> "absent", confidence |-> NotANumber ],
    [ kind |-> "json", decision |-> "BLOCKED", confidence |-> 90 ] }

EntryRequests ==
  [ route : {"email"}, prompt : EntryPrompts, ai : EntryAi,
    messageId : MessageIds, inReplyTo : {"none"} \cup MessageIds,
    subject : Subjects,
    sessionId : {"none"}, createSession : {FALSE}, skipSafetyCheck : {FALSE},
    production : {TRUE} ]
  \cup
  [ route : {"api"}, prompt : EntryPrompts, ai : EntryAi,
    messageId : {"none"}, inReplyTo : {"none"}, subject : {<<>>},
    sessionId : {"none"} \cup SessionIds, createSession : BOOLEAN,
    skipSafetyCheck : BOOLEAN, production : {TRUE} ]
  \cup
  [ route : {"debug"}, prompt : EntryPrompts, ai : EntryAi,
    messageId : {"none"}, inReplyTo : {"none"}, subject : {<<>>},
    sessionId : {"none"}, createSession : {FALSE}, skipSafetyCheck : {FALSE},
    production : BOOLEAN ]

NoEntryRequest ==
  [ route |-> "none", prompt |-> <<>>,
    ai |-> [ kind |-> "timeout", decision |-> "absent", confidence |-> NotANumber ],
    messageId |-> "none", inReplyTo |-> "none", subject |-> <<>>,
    sessionId |-> "none", createSession |-> FALSE, skipSafetyCheck |-> FALSE,
    production |-> TRUE ]

NoStart == [ started |-> FALSE, sessionId |-> "none", guard |-> "none", resume |-> "none" ]

\* manager.ts:232-245: the projects directory of the session's claude-home
\* has entries; home is what each claude-home/projects holds
hasClaudeSession(home, sessionId) ==
  sessionId \in DOMAIN home /\ home[sessionId] # NoClaudeId

\* unified-executor.ts:541: the resume id of the task payload,
\* sessionId: request.useResume ? request.sessionId : undefined
buildSdkTaskConfig(sessionId, useResume) ==
  [ sessionId |-> IF useResume THEN sessionId ELSE "none" ]

\* What an executeTask call meets: the sandbox (of the default image, the SDK
\* one) exits with a code and an output, in which agent-runner.ts reports the
\* session_id of the SDK's init message (agent-runner.ts:222-225), or the
\* call throws.
EntryRuns ==
  [ kind : {"result"}, exitCode : {0, 1}, output : Outputs,
    claudeSessionId : {NoClaudeId} \cup ClaudeIds ]
  \cup
  { [ kind |-> "throw", exitCode |-> -1, output |-> NoOutput,
      claudeSessionId |-> NoClaudeId ] }

NoRun ==
  [ kind |-> "none", exitCode |-> -1, output |-> NoOutput, claudeSessionId |-> NoClaudeId ]

\* =====================================================================
\* State
\* =====================================================================

VARIABLES
  gIn, gOut, gMatch, gPc,        \* one guardrail analysis
  indexFile,                     \* {base}/session-index.json
  dirs,                          \* session ids whose directory pair exists
  sOp, sPc, sLocal,              \* session operations in flight
  containers,                    \* the container each execution created
  registry,                      \* runningExecutions
  xReq, xPc, xErr, xExit, xResult, xTimer,  \* executeTask calls in flight
  xEvict,                                   \* the timers set in its finally block
  eReq, ePc, eSession, eGuard, eStart, eReply, eCount,  \* the request being handled
  eRun,                                     \* what its executeTask call met
  eSent,                                    \* what the reply channel received
  clock,                                    \* the value new Date() gives
  stLast, stPrev, stCount,                  \* the latest session store calls, one at a time
  pRun, pResult, pPc,                       \* a sandbox run and the result built from it
  pCred,                                    \* .credentials.json in the session's claude-home
  mFile, mLast, mCount,                     \* a session's .mcp.json and the executions in it
  claudeHome,                               \* the conversation kept in each claude-home/projects
  rIn, rOut                                 \* a text with placeholders and what it resolves to

gvars == <<gIn, gOut, gMatch, gPc>>
svars == <<indexFile, dirs, sOp, sPc, sLocal>>
xvars == <<containers, registry, xReq, xPc, xErr, xExit, xResult, xTimer, xEvict>>
evars == <<eReq, ePc, eSession, eGuard, eStart, eReply, eCount, eRun, eSent>>
tvars == <<clock, stLast, stPrev, stCount>>
ovars == <<pRun, pResult, pPc, pCred, mFile, mLast, mCount, claudeHome, rIn, rOut>>
vars == <<gIn, gOut, gMatch, gPc, indexFile, dirs, sOp, sPc, sLocal,
          containers, registry, xReq, xPc, xErr, xExit, xResult, xTimer, xEvict,
          eReq, ePc, eSession, eGuard, eStart, eReply, eCount, eRun, eSent,
          clock, stLast, stPrev, stCount,
          pRun, pResult, pPc, pCred, mFile, mLast, mCount, claudeHome, rIn, rOut>>

GuardInputs ==
  [ prompt : Prompts, useAiAnalysis : BOOLEAN, hasApiKey : BOOLEAN, ai : AiOutcomes ]

GuardIdleOut ==
  [ result |-> [ threw |-> FALSE, decision |-> "none", reason |-> "none",
                 confidence |-> 0, analysisMethod |-> "none" ],
    aiCalls |-> 0, aiResult |-> NotCalled ]

MatchIdle ==
  [ matched |-> FALSE, category |-> "idle", severity |-> "none", confidence |-> 0 ]

GuardIdle ==
  /\ gOut = GuardIdleOut
  /\ gMatch = MatchIdle
  /\ gPc = "ready"

\* one call of analyzeRequest
GuardAnalyze ==
  /\ gPc = "ready"
  /\ gOut' = analyzeRequest(gIn.prompt, gIn.useAiAnalysis, gIn.hasApiKey, gIn.ai)
  /\ gPc' = "done"
  /\ UNCHANGED <<gIn, gMatch>>
  /\ UNCHANGED <<svars, xvars, evars, tvars, ovars>>

\* one call of the exported matchThreatPatterns
GuardMatch ==
  /\ gMatch = MatchIdle
  /\ gMatch' = matchThreatPatterns(gIn.prompt)
  /\ gMatch' # MatchIdle
  /\ UNCHANGED <<gIn, gOut, gPc>>
  /\ UNCHANGED <<svars, xvars, evars, tvars, ovars>>

\* ---------------------------------------------------------------------
\* Session store operations; each await of the source ends a step
\* ---------------------------------------------------------------------

SessionProcs == 1..NumSessionOps

SessionIdle ==
  /\ indexFile = [ state |-> "missing", content |-> EmptyIndex ]
  /\ dirs = {}
  /\ sOp = [p \in SessionProcs |-> NoOp]
  /\ sPc = [p \in SessionProcs |-> "idle"]
  /\ sLocal = [p \in SessionProcs |-> EmptyIndex]

\* the call; createSession runs up to its loadIndex (lines 132-173): the two
\* mkdir calls, either of which may throw, and the copy of the credentials,
\* whose failure is caught
SessBegin(p) ==
  /\ sPc[p] = "idle"
  /\ \E op \in SessionOps :
       /\ sOp' = [sOp EXCEPT ![p] = op]
       /\ IF op.kind = "createSession"
          THEN \/ /\ dirs' = dirs \cup sessionDirs(op.sessionId)
                  /\ sPc' = [sPc EXCEPT ![p] = "load"]
               \/ /\ dirs' = dirs \cup {<<op.sessionId, "workspace">>}
                  /\ sPc' = [sPc EXCEPT ![p] = "failed"]
               \/ /\ dirs' = dirs
                  /\ sPc' = [sPc EXCEPT ![p] = "failed"]
          ELSE /\ dirs' = dirs
               /\ sPc' = [sPc EXCEPT ![p] = "load"]
  /\ UNCHANGED <<indexFile, sLocal>>
  /\ UNCHANGED <<gvars, xvars, evars, tvars, ovars>>

\* await loadIndex(), then the synchronous mutation of the loaded object;
\* addMessageToSession and updateClaudeSessionId throw on an unknown session
SessLoad(p) ==
  /\ sPc[p] = "load"
  /\ LET index == loadIndex(indexFile) IN
     IF sOp[p].kind # "createSession" /\ sOp[p].sessionId \notin DOMAIN index.sessions
     THEN /\ sPc' = [sPc EXCEPT ![p] = "failed"]
          /\ UNCHANGED sLocal
     ELSE /\ sLocal' = [sLocal EXCEPT ![p] = mutateIndex(index, sOp[p], clock)]
          /\ sPc' = [sPc EXCEPT ![p] = "save"]
  /\ UNCHANGED <<indexFile, dirs, sOp>>
  /\ UNCHANGED <<gvars, xvars, evars, tvars, ovars>>

\* await saveIndex(index); writeFile may throw and leave the file as it was
SessSave(p) ==
  /\ sPc[p] = "save"
  /\ \/ /\ indexFile' = saveIndex(sLocal[p])
        /\ sPc' = [sPc EXCEPT ![p] = "done"]
     \/ /\ indexFile' = indexFile
        /\ sPc' = [sPc EXCEPT ![p] = "failed"]
  /\ UNCHANGED <<dirs, sOp, sLocal>>
  /\ UNCHANGED <<gvars, xvars, evars, tvars, ovars>>

\* the index file becomes unreadable as JSON (a writeFile cut short, a
\* damaged disk block); content is what the file held
SessCorrupt ==
  /\ indexFile.state = "ok"
  /\ indexFile' = [indexFile EXCEPT !.state = "corrupt"]
  /\ UNCHANGED <<dirs, sOp, sPc, sLocal>>
  /\ UNCHANGED <<gvars, xvars, evars, tvars, ovars>>

\* ---------------------------------------------------------------------
\* executeTask; each await of the source ends a step
\* ---------------------------------------------------------------------

ExecIdle ==
  /\ containers = [e \in Execs |-> NoContainer]
  /\ registry = [e \in Execs |-> NoStatus]
  /\ xReq = [e \in Execs |-> NoRequest]
  /\ xPc = [e \in Execs |-> "idle"]
  /\ xErr = [e \in Execs |-> "none"]
  /\ xExit = [e \in Execs |-> -1]
  /\ xResult = [e \in Execs |-> NoResult]
  /\ xTimer = [e \in Execs |-> -1]
  /\ xEvict = [e \in Execs |-> "none"]

\* the locals of a call are gone when it has returned or thrown
CallEnds(e) ==
  /\ xReq' = [xReq EXCEPT ![e] = NoRequest]
  /\ xExit' = [xExit EXCEPT ![e] = -1]
  /\ xTimer' = [xTimer EXCEPT ![e] = -1]

\* lines 51-104: the status is registered, the MCP configuration injected;
\* a throw of the injection leaves executeTask before its try block
ExecBegin(e) ==
  /\ xPc[e] = "idle"
  /\ \E req \in ExecRequests : xReq' = [xReq EXCEPT ![e] = req]
  /\ registry' = [registry EXCEPT ![e] = runningStatus]
  /\ \/ xPc' = [xPc EXCEPT ![e] = "create"] /\ UNCHANGED xErr
     \/ /\ xPc' = [xPc EXCEPT ![e] = "thrown"]
        /\ xErr' = [xErr EXCEPT ![e] = "inject failed"]
  /\ UNCHANGED <<containers, xExit, xResult, xTimer>>
  /\ UNCHANGED xEvict
  /\ UNCHANGED <<gvars, svars, evars, tvars, ovars>>

\* await docker.createContainer(...): the runtime refuses a name in use
ExecCreate(e) ==
  /\ xPc[e] = "create"
  /\ \/ /\ byName(containers, xReq[e].name) = {}
        /\ containers' = [containers EXCEPT ![e] =
             [ state |-> "created", name |-> xReq[e].name,
               exitCode |-> -1, foreign |-> FALSE ]]
        /\ xPc' = [xPc EXCEPT ![e] = "start"]
        /\ UNCHANGED xErr
     \/ /\ byName(containers, xReq[e].name) # {}
        /\ xPc' = [xPc EXCEPT ![e] = "catchStop"]
        /\ xErr' = [xErr EXCEPT ![e] = "name in use"]
        /\ UNCHANGED containers
     \/ /\ xPc' = [xPc EXCEPT ![e] = "catchStop"]
        /\ xErr' = [xErr EXCEPT ![e] = "create failed"]
        /\ UNCHANGED containers
  /\ UNCHANGED <<registry, xReq, xExit, xResult, xTimer>>
  /\ UNCHANGED xEvict
  /\ UNCHANGED <<gvars, svars, evars, tvars, ovars>>

\* await container.start(), then container.wait() and the timer are set up
ExecStartContainer(e) ==
  /\ xPc[e] = "start"
  /\ \/ /\ containers[e].state = "created"
        /\ containers' = [containers EXCEPT ![e].state = "running"]
        /\ xTimer' = [xTimer EXCEPT ![e] = TimeoutTicks]
        /\ xPc' = [xPc EXCEPT ![e] = "wait"]
        /\ UNCHANGED xErr
     \/ /\ xPc' = [xPc EXCEPT ![e] = "catchStop"]
        /\ xErr' = [xErr EXCEPT ![e] = "start failed"]
        /\ UNCHANGED <<containers, xTimer>>
  /\ UNCHANGED <<registry, xReq, xExit, xResult>>
  /\ UNCHANGED xEvict
  /\ UNCHANGED <<gvars, svars, evars, tvars, ovars>>

\* the sandboxed process ends by itself (it need not ever do so)
ContainerExit(e) ==
  /\ containers[e].state = "running"
  /\ \E code \in {0, 1} :
       containers' = [containers EXCEPT ![e].state = "exited", ![e].exitCode = code]
  /\ UNCHANGED <<registry, xReq, xPc, xErr, xExit, xResult, xTimer>>
  /\ UNCHANGED xEvict
  /\ UNCHANGED <<gvars, svars, evars, tvars, ovars>>

\* Promise.race settles with the wait result
ExecWaitResolve(e) ==
  /\ xPc[e] = "wait"
  /\ containers[e].state \in {"exited", "removed"}
  /\ xExit' = [xExit EXCEPT ![e] = containers[e].exitCode]
  /\ xPc' = [xPc EXCEPT ![e] = "logs"]
  /\ UNCHANGED <<containers, registry, xReq, xErr, xResult, xTimer>>
  /\ UNCHANGED xEvict
  /\ UNCHANGED <<gvars, svars, evars, tvars, ovars>>

\* Promise.race settles with the rejection of the timer
ExecTimeout(e) ==
  /\ xPc[e] = "wait"
  /\ xTimer[e] = 0
  /\ xPc' = [xPc EXCEPT ![e] = "catchStop"]
  /\ xErr' = [xErr EXCEPT ![e] = "Agent timeout exceeded"]
  /\ UNCHANGED <<containers, registry, xReq, xExit, xResult, xTimer>>
  /\ UNCHANGED xEvict
  /\ UNCHANGED <<gvars, svars, evars, tvars, ovars>>

\* time passes; a timer that is due runs before more time passes
Tick ==
  /\ \E e \in Execs : xPc[e] = "wait"
  /\ \A e \in Execs : xPc[e] = "wait" => xTimer[e] > 0
  /\ xTimer' = [e \in Execs |-> IF xPc[e] = "wait" THEN xTimer[e] - 1 ELSE xTimer[e]]
  /\ UNCHANGED <<containers, registry, xReq, xPc, xErr, xExit, xResult>>
  /\ UNCHANGED xEvict
  /\ UNCHANGED <<gvars, svars, evars, tvars, ovars>>

\* await container.logs(...)
ExecLogs(e) ==
  /\ xPc[e] = "logs"
  /\ \/ /\ containers[e].state \in Live
        /\ xPc' = [xPc EXCEPT ![e] = "remove"]
        /\ UNCHANGED xErr
     \/ /\ xPc' = [xPc EXCEPT ![e] = "catchStop"]
        /\ xErr' = [xErr EXCEPT ![e] = "logs failed"]
  /\ UNCHANGED <<containers, registry, xReq, xExit, xResult, xTimer>>
  /\ UNCHANGED xEvict
  /\ UNCHANGED <<gvars, svars, evars, tvars, ovars>>

\* lines 158-187 and 214-219: remove, parse (the image is the default one,
\* claude-agent-sdk), update the status, return; the finally block sets the
\* timer that will delete the entry
ExecRemove(e) ==
  /\ xPc[e] = "remove"
  /\ containers' = removeByHandle(containers, e)
  /\ \E output \in Outputs :
       LET result == buildResult(FALSE, xExit[e], output) IN
       /\ xResult' = [xResult EXCEPT ![e] = result]
       /\ registry' = [registry EXCEPT ![e] = finalStatus(result)]
  /\ xPc' = [xPc EXCEPT ![e] = "returned"]
  /\ CallEnds(e)
  /\ UNCHANGED xErr
  /\ xEvict' = [xEvict EXCEPT ![e] = "pending"]
  /\ UNCHANGED <<gvars, svars, evars, tvars, ovars>>

\* line 194: await container.stop({ t: 5 }).catch(() => {})
ExecCatchStop(e) ==
  /\ xPc[e] = "catchStop"
  /\ containers' = stopByName(containers, xReq[e].name, e)
  /\ xPc' = [xPc EXCEPT ![e] = "catchRemove"]
  /\ UNCHANGED <<registry, xReq, xErr, xExit, xResult, xTimer>>
  /\ UNCHANGED xEvict
  /\ UNCHANGED <<gvars, svars, evars, tvars, ovars>>

\* lines 195-219: remove, update the status, throw AgentExecutionError; the
\* finally block sets the timer that will delete the entry
ExecCatchRemove(e) ==
  /\ xPc[e] = "catchRemove"
  /\ containers' = removeByName(containers, xReq[e].name, e)
  /\ registry' = [registry EXCEPT ![e] = catchStatus(xErr[e])]
  /\ xPc' = [xPc EXCEPT ![e] = "thrown"]
  /\ CallEnds(e)
  /\ UNCHANGED <<xErr, xResult>>
  /\ xEvict' = [xEvict EXCEPT ![e] = "pending"]
  /\ UNCHANGED <<gvars, svars, evars, tvars, ovars>>

\* lines 216-218: the timer set in the finally block fires,
\* runningExecutions.delete(executionId)
RegistryEvict(e) ==
  /\ xEvict[e] = "pending"
  /\ registry' = [registry EXCEPT ![e] = NoStatus]
  /\ xEvict' = [xEvict EXCEPT ![e] = "fired"]
  /\ UNCHANGED <<containers, xReq, xPc, xErr, xExit, xResult, xTimer>>
  /\ UNCHANGED <<gvars, svars, evars, tvars, ovars>>

\* ---------------------------------------------------------------------
\* Request handlers; requests are handled one after the other
\* ---------------------------------------------------------------------

EntryIdle ==
  /\ eReq = NoEntryRequest
  /\ ePc = "idle"
  /\ eSession = "none"
  /\ eGuard = "none"
  /\ eStart = NoStart
  /\ eReply = "none"
  /\ eCount = 0
  /\ eRun = NoRun
  /\ eSent = "none"

SessionUnused == <<sOp, sPc, sLocal>>

\* a request arrives; the debug route answers 403 in production
\* (debug.ts:44-47)
EntryReceive ==
  /\ ePc = "idle"
  /\ eCount < MaxRequests
  /\ \E req \in EntryRequests :
       /\ eReq' = req
       /\ IF req.route = "debug" /\ req.production
          THEN ePc' = "answered" /\ eReply' = "403 disabled"
          ELSE ePc' = "session" /\ eReply' = "none"
  /\ eCount' = eCount + 1
  /\ eSession' = "none" /\ eGuard' = "none" /\ eStart' = NoStart
  /\ UNCHANGED <<eRun, eSent>>
  /\ UNCHANGED <<indexFile, dirs, SessionUnused>>
  /\ UNCHANGED <<gvars, xvars, tvars, ovars>>

\* part_020:98-118 getOrCreateSession; debug.ts:214-234 a named session is
\* taken as it is, createSession makes one, otherwise there is none;
\* debug.ts:69-75 always createSession
EntrySession ==
  /\ ePc = "session"
  /\ \E newId \in SessionIds :
       LET made == saveIndex(indexWithSession(loadIndex(indexFile), newId, "test",
                                              "api-message", clock))
           got == getOrCreateSession(indexFile, "test", eReq.messageId,
                                     eReq.inReplyTo, eReq.subject, newId, clock)
       IN
       IF eReq.route = "email"
       THEN /\ eSession' = got.sessionId
            /\ indexFile' = got.file
            /\ dirs' = IF got.isNew THEN dirs \cup sessionDirs(newId) ELSE dirs
       ELSE IF eReq.route = "api" /\ eReq.sessionId # "none"
       THEN /\ eSession' = eReq.sessionId
            /\ UNCHANGED <<indexFile, dirs>>
       ELSE IF eReq.route = "debug" \/ eReq.createSession
       THEN /\ eSession' = newId
            /\ indexFile' = made
            /\ dirs' = dirs \cup sessionDirs(newId)
       ELSE /\ eSession' = "none"
            /\ UNCHANGED <<indexFile, dirs>>
  /\ ePc' = IF eReq.route = "debug" THEN "execute" ELSE "guard"
  /\ UNCHANGED <<eReq, eGuard, eStart, eReply, eCount, eRun, eSent, SessionUnused>>
  /\ UNCHANGED <<gvars, xvars, tvars, ovars>>

\* part_020:120-185; debug.ts:240-292 (skipped with skipSafetyCheck)
EntryGuard ==
  /\ ePc = "guard"
  /\ IF eReq.route = "api" /\ eReq.skipSafetyCheck
     THEN /\ eGuard' = "skipped"
          /\ ePc' = "execute"
          /\ UNCHANGED eReply
     ELSE LET g == analyzeRequest(eReq.prompt, TRUE, TRUE, eReq.ai).result IN
          /\ eGuard' = g.decision
          /\ IF guardRejects(g.decision)
             THEN ePc' = "answered" /\ eReply' = "rejected"
             ELSE ePc' = "execute" /\ UNCHANGED eReply
  /\ UNCHANGED <<eReq, eSession, eStart, eCount, eRun, eSent>>
  /\ UNCHANGED <<gvars, svars, xvars, tvars, ovars>>

\* part_020:187-222, debug.ts:77-98 and 294-325: executeTask is called; the
\* email route first sends the acknowledgment, and when that send throws the
\* handler goes to its catch block.  useResume is hasClaudeSession of the
\* session on the email route (part_020:201) and for a session the api
\* request names (debug.ts:216), false otherwise
EntryExecute ==
  /\ ePc = "execute"
  /\ \/ /\ LET useResume ==
                 /\ eReq.route = "email" \/ (eReq.route = "api" /\ eReq.sessionId # "none")
                 /\ hasClaudeSession(claudeHome, eSession)
           IN eStart' = [ started |-> TRUE, sessionId |-> eSession,
                          guard |-> IF eGuard = "none" THEN "skipped" ELSE eGuard,
                          resume |-> buildSdkTaskConfig(eSession, useResume).sessionId ]
        /\ ePc' = "running"
        /\ UNCHANGED eReply
     \/ /\ eReq.route = "email"
        /\ ePc' = "answered"
        /\ eReply' = "error"
        /\ UNCHANGED eStart
  /\ UNCHANGED <<eReq, eSession, eGuard, eCount, eRun, eSent>>
  /\ UNCHANGED <<gvars, svars, xvars, tvars, ovars>>

\* executeTask returns a result or throws; the handler answers with it
\* (part_020:224-327, debug.ts:100-115 and 327-371) and does nothing else.
\* A sandbox that reported the session_id of its conversation has left that
\* conversation in the claude-home of the session it ran in
EntryReply ==
  /\ ePc = "running"
  /\ \E run \in EntryRuns :
       /\ eRun' = run
       /\ claudeHome' = IF run.claudeSessionId # NoClaudeId /\ eSession \in SessionIds
                        THEN [claudeHome EXCEPT ![eSession] = run.claudeSessionId]
                        ELSE claudeHome
       /\ eReply' = IF run.kind = "throw" THEN "error"
                    ELSE IF buildResult(FALSE, run.exitCode, run.output).success
                    THEN "completed"
                    ELSE "failed"
  /\ ePc' = "answered"
  /\ UNCHANGED <<eReq, eSession, eGuard, eStart, eCount, eSent>>
  /\ UNCHANGED <<pRun, pResult, pPc, pCred, mFile, mLast, mCount, rIn, rOut>>
  /\ UNCHANGED <<gvars, svars, xvars, tvars>>

\* The answer goes out.  The api and debug routes write the HTTP response.
\* The email route sends the message (sendTaskCompleted, sendTaskFailed or
\* sendTaskRejected); when that send throws, or executeTask has thrown, the
\* catch block sends a failure notice, and when that send throws too the
\* error is logged (part_020:310-327)
EntrySend ==
  /\ ePc = "answered"
  /\ IF eReq.route # "email"
     THEN eSent' = eReply
     ELSE \/ eReply # "error" /\ eSent' = eReply
          \/ eSent' = "failed"
          \/ eSent' = "none"
  /\ ePc' = "sent"
  /\ UNCHANGED <<eReq, eSession, eGuard, eStart, eReply, eCount, eRun>>
  /\ UNCHANGED <<gvars, svars, xvars, tvars, ovars>>

\* the handler is done; the next request may arrive
EntryDone ==
  /\ ePc = "sent"
  /\ ePc' = "idle"
  /\ eSent' = "none"
  /\ eReq' = NoEntryRequest
  /\ eSession' = "none" /\ eGuard' = "none" /\ eStart' = NoStart /\ eReply' = "none"
  /\ eRun' = NoRun
  /\ UNCHANGED eCount
  /\ UNCHANGED <<gvars, svars, xvars, tvars, ovars>>

\* ---------------------------------------------------------------------
\* Session store calls made one after the other, each run to its end
\* ---------------------------------------------------------------------

MaxStoreCalls == 3

\* a call and what it gave: result is the id of the session returned, "none"
\* for null, "error" for a throw; before is the index as loadIndex reads it
\* when the call starts
NoCall ==
  [ op |-> "none", messageId |-> "none", inReplyTo |-> "none", subject |-> <<>>,
    sessionId |-> "none", result |-> "none", isNew |-> FALSE,
    before |-> EmptyIndex, at |-> 0 ]

StoreIdle ==
  /\ clock = 0
  /\ stLast = NoCall
  /\ stPrev = NoCall
  /\ stCount = 0

\* bookkeeping of a call that ends: time passes, the call becomes the latest
StoreCallEnds(call) ==
  /\ stCount < MaxStoreCalls
  /\ stCount' = stCount + 1
  /\ clock' = clock + 1
  /\ stPrev' = stLast
  /\ stLast' = call
  /\ UNCHANGED <<sOp, sPc, sLocal>>
  /\ UNCHANGED <<gvars, xvars, evars, ovars>>

\* getOrCreateSession(params)
StoreGetOrCreate ==
  \E messageId \in MessageIds, inReplyTo \in {"none"} \cup MessageIds,
     subject \in Subjects, newId \in SessionIds :
    LET got == getOrCreateSession(indexFile, "test", messageId, inReplyTo, subject,
                                  newId, clock)
    IN
    /\ indexFile' = got.file
    /\ dirs' = IF got.isNew THEN dirs \cup sessionDirs(newId) ELSE dirs
    /\ StoreCallEnds([ op |-> "getOrCreateSession", messageId |-> messageId,
                       inReplyTo |-> inReplyTo, subject |-> subject,
                       sessionId |-> "none", result |-> got.sessionId,
                       isNew |-> got.isNew, before |-> loadIndex(indexFile),
                       at |-> clock ])

\* createSession(params), as the API routes call it
StoreCreateSession ==
  \E messageId \in MessageIds, newId \in SessionIds :
    LET file == saveIndex(indexWithSession(loadIndex(indexFile), newId, "test",
                                           messageId, clock))
    IN
    /\ indexFile' = file
    /\ dirs' = dirs \cup sessionDirs(newId)
    /\ StoreCallEnds([ op |-> "createSession", messageId |-> messageId,
                       inReplyTo |-> "none", subject |-> <<>>,
                       sessionId |-> "none", result |-> newId, isNew |-> TRUE,
                       before |-> loadIndex(indexFile), at |-> clock ])

\* addMessageToSession(sessionId, messageId); throws for an unknown session
StoreAddMessage ==
  \E sessionId \in SessionIds, messageId \in MessageIds :
    LET index == loadIndex(indexFile)
        known == sessionId \in DOMAIN index.sessions
        file == IF known
                THEN saveIndex(indexWithMessage(index, sessionId, messageId, clock))
                ELSE indexFile
    IN
    /\ indexFile' = file
    /\ dirs' = dirs
    /\ StoreCallEnds([ op |-> "addMessageToSession", messageId |-> messageId,
                       inReplyTo |-> "none", subject |-> <<>>,
                       sessionId |-> sessionId,
                       result |-> IF known THEN sessionId ELSE "error",
                       isNew |-> FALSE, before |-> index, at |-> clock ])

\* findSessionByMessageId(messageId)
StoreFind ==
  \E messageId \in MessageIds :
    /\ UNCHANGED <<indexFile, dirs>>
    /\ StoreCallEnds([ op |-> "findSessionByMessageId", messageId |-> messageId,
                       inReplyTo |-> "none", subject |-> <<>>, sessionId |-> "none",
                       result |-> findSessionByMessageId(loadIndex(indexFile), messageId),
                       isNew |-> FALSE, before |-> loadIndex(indexFile),
                       at |-> clock ])


\* ---------------------------------------------------------------------
\* The MCP configuration of a session (mcp-injector.ts)
\* ---------------------------------------------------------------------

MaxInjections == 2                       \* executions in the session

\* MCP_PRESETS: the presets there are; a request may name others
PresetNames == {"moco"}

\* request.mcpConfig: absent, or presets by name and custom servers
McpConfigs ==
  { [ present |-> FALSE, preset |-> {}, custom |-> {} ] }
  \cup [ present : {TRUE}, preset : SUBSET {"moco", "unknown"}, custom : SUBSET {"search"} ]

\* agentConfig.mcpConfig: absent, or the servers of the agent's .mcp.json
AgentMcpConfigs ==
  { [ present |-> FALSE, mcpServers |-> {} ] }
  \cup [ present : {TRUE}, mcpServers : SUBSET {"moco", "firecrawl"} ]

\* mcp-injector.ts:68-100: the servers of the known presets and the custom
\* ones; a server is written as its name and where its definition is from
buildMcpJson(mcpConfig) ==
  { [ name |-> n, from |-> "preset" ] : n \in mcpConfig.preset \cap PresetNames }
  \cup { [ name |-> n, from |-> "custom" ] : n \in mcpConfig.custom }

\* lines 446-458: the servers of the agent, their env values resolved
resolveEnvPlaceholders(mcpConfig) ==
  { [ name |-> n, from |-> "agent" ] : n \in mcpConfig.mcpServers }

\* mcp-injector.ts:107-127: nothing is written when there is no server,
\* otherwise fs.writeFile replaces the file
injectMcpConfigDirect(file, mcpJson) == IF mcpJson = {} THEN file ELSE mcpJson

\* mcp-injector.ts:41-63
injectMcpConfig(file, mcpConfig) == injectMcpConfigDirect(file, buildMcpJson(mcpConfig))

\* lines 86-101 of executeTask, for a request with a session
ExecInject ==
  /\ mCount < MaxInjections
  /\ \E request \in McpConfigs, agent \in AgentMcpConfigs :
       /\ mLast' = [ request |-> request, agent |-> agent ]
       /\ mFile' = IF request.present THEN injectMcpConfig(mFile, request)
                   ELSE IF agent.present
                   THEN injectMcpConfigDirect(mFile, resolveEnvPlaceholders(agent))
                   ELSE mFile
  /\ mCount' = mCount + 1
  /\ UNCHANGED <<pRun, pResult, pPc, pCred, claudeHome, rIn, rOut>>
  /\ UNCHANGED <<gvars, svars, xvars, evars, tvars>>

\* ---------------------------------------------------------------------
\* Placeholders (unified-executor.ts:460-514)
\* ---------------------------------------------------------------------

MaxTextLen == 2                          \* pieces of a config value or a prompt

\* A text is a sequence of pieces: plain text, ${NAME} (dollar) and {{NAME}}
\* (braces).  process.env gives each name no value, the empty string or a
\* value.
Texts ==
  SeqsUpTo([ kind : {"dollar", "braces"}, s : {"TOKEN", "HOST"} ]
             \cup { [ kind |-> "text", s |-> "Bearer " ] }, MaxTextLen) \ {<<>>}

ProcessEnvs == [ {"TOKEN", "HOST"} -> {"unset", "", "gk_1"} ]

\* lines 476-491: /^\$\{(\w+)\}$/ matches a value that is one ${NAME} and
\* nothing else; !envValue is true for no value and for the empty string
resolveEnvValue(value, env) ==
  IF Len(value) = 1 /\ value[1].kind = "dollar"
  THEN IF env[value[1].s] \in {"unset", ""} THEN <<>>
       ELSE << [ kind |-> "text", s |-> env[value[1].s] ] >>
  ELSE value

\* variant: a {{NAME}} without a value is replaced by the empty string
resolvePromptPlaceholders_blank(prompt, env) ==
  [ i \in DOMAIN prompt |->
      IF prompt[i].kind = "braces"
      THEN [ kind |-> "text",
             s |-> IF env[prompt[i].s] = "unset" THEN "" ELSE env[prompt[i].s] ]
      ELSE prompt[i] ]

\* lines 498-514: every {{NAME}} of the prompt is replaced by the value of
\* NAME, or kept as it is when !value
resolvePromptPlaceholders(prompt, env) ==
  [ i \in DOMAIN prompt |->
      IF prompt[i].kind = "braces" /\ env[prompt[i].s] \notin {"unset", ""}
      THEN [ kind |-> "text", s |-> env[prompt[i].s] ]
      ELSE prompt[i] ]

\* lines 86-104 of executeTask: a value of the env of one of the agent's
\* servers is resolved (resolveEnvObject, lines 463-471), then the system
\* prompt (buildSdkTaskConfig, lines 523-525), against the same process.env
ExecResolve ==
  /\ rIn.value = <<>>
  /\ \E value \in Texts, prompt \in Texts, env \in ProcessEnvs :
       /\ rIn' = [ value |-> value, prompt |-> prompt, env |-> env ]
       /\ rOut' = [ value |-> resolveEnvValue(value, env),
                    prompt |-> resolvePromptPlaceholders(prompt, env) ]
  /\ UNCHANGED <<pRun, pResult, pPc, pCred, mFile, mLast, mCount, claudeHome>>
  /\ UNCHANGED <<gvars, svars, xvars, evars, tvars>>

\* ---------------------------------------------------------------------
\* A sandbox run and the result executeTask builds from it
\* ---------------------------------------------------------------------

NoSandboxRun ==
  [ isLegacyImage |-> FALSE, hasPrompt |-> FALSE, hasApiKey |-> FALSE,
    first |-> NoAttempt, second |-> NoAttempt, method |-> "none",
    fallback |-> FALSE, exitCode |-> -1, output |-> NoOutput ]

ParseIdle ==
  /\ pRun = NoSandboxRun
  /\ pResult = NoResult
  /\ pPc = "idle"

\* no .mcp.json in the session's claude-home yet and no conversation in any;
\* the credentials createSession copied are there (manager.ts:159-173)
OthersIdle ==
  /\ ParseIdle
  /\ pCred = TRUE
  /\ claudeHome = [ sessionId \in SessionIds |-> NoClaudeId ]
  /\ rIn = [ value |-> <<>>, prompt |-> <<>>, env |-> [ n \in {"TOKEN", "HOST"} |-> "unset" ] ]
  /\ rOut = [ value |-> <<>>, prompt |-> <<>> ]
  /\ mFile = {}
  /\ mLast = [ request |-> [ present |-> FALSE, preset |-> {}, custom |-> {} ],
               agent |-> [ present |-> FALSE, mcpServers |-> {} ] ]
  /\ mCount = 0

\* agent-runner.ts:146-319: the SDK image prints its log lines and the result
\* object and exits; it is given the API key and no other credential
\* (buildSdkEnvVars, lines 549-590)
SandboxRunsSdk ==
  /\ pPc = "idle"
  /\ \E output \in [ framed : BOOLEAN, lines : SeqsUpTo(SdkLines, MaxOutputLen) ],
        exitCode \in {0, 1} :
       pRun' = [NoSandboxRun EXCEPT !.method = "api_key",
                                    !.exitCode = exitCode, !.output = output]
  /\ pPc' = "exited"
  /\ UNCHANGED <<pResult, pCred, mFile, mLast, mCount, claudeHome, rIn, rOut>>
  /\ UNCHANGED <<gvars, svars, xvars, evars, tvars>>

\* part_005: the sandbox image runs the entry script; AGENT_PROMPT is set
\* when the agent's env defines it (buildSdkEnvVars, lines 571-579)
SandboxRunsScript ==
  /\ pPc = "idle"
  /\ \E hasPrompt \in BOOLEAN, hasApiKey \in BOOLEAN, framed \in BOOLEAN,
        first \in Attempts, second \in Attempts, hostHas \in BOOLEAN :
       LET run == entrypoint(hasPrompt, first, second, hasApiKey) IN
       /\ pCred' = credentialsAfter(pCred, hostHas, run.fallback)
       /\ pRun' = [ isLegacyImage |-> TRUE, hasPrompt |-> hasPrompt,
                    hasApiKey |-> hasApiKey,
                    first |-> IF hasPrompt THEN first ELSE NoAttempt,
                    second |-> IF run.fallback THEN second ELSE NoAttempt,
                    method |-> run.method, fallback |-> run.fallback,
                    exitCode |-> run.exitCode,
                    output |-> [ framed |-> framed, lines |-> run.lines ] ]
  /\ pPc' = "exited"
  /\ UNCHANGED <<pResult, mFile, mLast, mCount, claudeHome, rIn, rOut>>
  /\ UNCHANGED <<gvars, svars, xvars, evars, tvars>>

\* lines 166-180: the result is built from the exit code and the logs
ParseOutput ==
  /\ pPc = "exited"
  /\ pResult' = buildResult(pRun.isLegacyImage, pRun.exitCode, pRun.output)
  /\ pPc' = "parsed"
  /\ UNCHANGED <<pRun, pCred, mFile, mLast, mCount, claudeHome, rIn, rOut>>
  /\ UNCHANGED <<gvars, svars, xvars, evars, tvars>>

\* =====================================================================
\* Specifications
\* =====================================================================

InitGuard == gIn \in GuardInputs /\ GuardIdle /\ SessionIdle /\ ExecIdle /\ EntryIdle
    /\ StoreIdle /\ OthersIdle

NextGuard == GuardAnalyze \/ GuardMatch

SpecGuard == InitGuard /\ [][NextGuard]_vars

GuardParked == gIn = CHOOSE i \in GuardInputs : TRUE

InitSession == GuardParked /\ GuardIdle /\ SessionIdle /\ ExecIdle /\ EntryIdle
    /\ StoreIdle /\ OthersIdle

NextSession ==
  \E p \in SessionProcs : SessBegin(p) \/ SessLoad(p) \/ SessSave(p)

SpecSession == InitSession /\ [][NextSession]_vars

\* the same calls on a disk that may damage the index file
NextSessionFaults == NextSession \/ SessCorrupt

SpecSessionFaults == InitSession /\ [][NextSessionFaults]_vars

InitExec == GuardParked /\ GuardIdle /\ SessionIdle /\ ExecIdle /\ EntryIdle
    /\ StoreIdle /\ OthersIdle

NextExec ==
  \/ \E e \in Execs :
       \/ ExecBegin(e) \/ ExecCreate(e) \/ ExecStartContainer(e)
       \/ ContainerExit(e) \/ ExecWaitResolve(e) \/ ExecTimeout(e)
       \/ ExecLogs(e) \/ ExecRemove(e)
       \/ ExecCatchStop(e) \/ ExecCatchRemove(e)
  \/ Tick

SpecExec == InitExec /\ [][NextExec]_vars

\* The registry over its whole life: the calls, and the timers that delete
\* the entries.  A step the host can take is taken in the end (the event loop
\* runs every settled promise and every due timer); nothing makes a request
\* arrive or a sandboxed process end.
NextRegistry == NextExec \/ \E e \in Execs : RegistryEvict(e)

FairRegistry ==
  /\ \A e \in Execs :
       /\ WF_vars(ExecCreate(e)) /\ WF_vars(ExecStartContainer(e))
       /\ WF_vars(ExecWaitResolve(e)) /\ WF_vars(ExecTimeout(e))
       /\ WF_vars(ExecLogs(e)) /\ WF_vars(ExecRemove(e))
       /\ WF_vars(ExecCatchStop(e)) /\ WF_vars(ExecCatchRemove(e))
       /\ WF_vars(RegistryEvict(e))
  /\ WF_vars(Tick)

SpecRegistry == InitExec /\ [][NextRegistry]_vars /\ FairRegistry

InitEntry == GuardParked /\ GuardIdle /\ SessionIdle /\ ExecIdle /\ EntryIdle
    /\ StoreIdle /\ OthersIdle

NextEntry ==
  \/ EntryReceive \/ EntrySession \/ EntryGuard \/ EntryExecute \/ EntryReply
  \/ EntrySend \/ EntryDone

SpecEntry == InitEntry /\ [][NextEntry]_vars

InitStore == GuardParked /\ GuardIdle /\ SessionIdle /\ ExecIdle /\ EntryIdle
    /\ StoreIdle /\ OthersIdle

NextStore == StoreGetOrCreate \/ StoreCreateSession \/ StoreAddMessage \/ StoreFind

SpecStore == InitStore /\ [][NextStore]_vars

InitParse == GuardParked /\ GuardIdle /\ SessionIdle /\ ExecIdle /\ EntryIdle
    /\ StoreIdle /\ OthersIdle

NextParse == SandboxRunsSdk \/ SandboxRunsScript \/ ParseOutput

SpecParse == InitParse /\ [][NextParse]_vars

\* the executions of one session, as far as its .mcp.json goes
SpecInject == InitExec /\ [][ExecInject]_vars

\* the two kinds of placeholder, as one execution resolves them
SpecResolve == InitExec /\ [][ExecResolve]_vars

\* ---------------------------------------------------------------------
\* Guardrail properties
\* ---------------------------------------------------------------------

\* catalog positions with a pattern that matches the prompt
HitCategories(prompt) ==
  { c \in DOMAIN THREAT_PATTERNS :
      \E r \in DOMAIN THREAT_PATTERNS[c].patterns :
        \E i \in DOMAIN prompt : prompt[i] \in THREAT_PATTERNS[c].patterns[r] }

HitsHighDestructive(prompt) ==
  \E c \in HitCategories(prompt) :
    THREAT_PATTERNS[c].category = "DESTRUCTIVE" /\ THREAT_PATTERNS[c].severity = "high"

\* C2: every input matching a high-severity destructive pattern is BLOCKED
\* with confidence >= 0.9, whatever the AI stage does
C2_HighDestructiveBlocked ==
  (gPc = "done" /\ HitsHighDestructive(gIn.prompt))
    => (gOut.result.decision = "BLOCKED" /\ gOut.result.confidence >= 90)

\* the fallback stage is reached: no safe pre-check, no pattern block, and
\* the AI stage is disabled or came back without a verdict
FallbackReached ==
  /\ gPc = "done"
  /\ ~isObviouslySafe(gIn.prompt)
  /\ \A c \in HitCategories(gIn.prompt) : THREAT_PATTERNS[c].severity # "high"
  /\ \/ ~gIn.useAiAnalysis
     \/ gOut.aiCalls = 1 /\ ~gOut.aiResult.verdict

AiFailed == gIn.ai.kind \in {"timeout", "apiError", "prose", "brokenJson"}

\* C6: in the fallback stage the result is APPROVED, method pattern,
\* confidence 0.5 after a sub-threshold pattern match and 0.7 otherwise;
\* a classifier timeout or malformed response never reaches the caller as
\* an error
C6_FallbackApproves ==
  /\ FallbackReached =>
       /\ gOut.result.decision = "APPROVED"
       /\ gOut.result.analysisMethod = "pattern"
       /\ gOut.result.confidence = IF HitCategories(gIn.prompt) # {} THEN 50 ELSE 70
  /\ (gPc = "done" /\ AiFailed) => ~gOut.result.threw

C6_Witness ==
  /\ FallbackReached
  /\ gIn.useAiAnalysis /\ gIn.hasApiKey /\ gIn.ai.kind = "timeout"
  /\ HitCategories(gIn.prompt) # {}
  /\ gOut.result.confidence = 50

\* the response conforms to the requested shape: an object whose decision is
\* APPROVED or BLOCKED (confidence, when given, is a number)
AiConforming ==
  gIn.ai.kind = "json" /\ gIn.ai.decision \in {"APPROVED", "BLOCKED"}

\* C7: a timeout, a malformed or a non-conforming response gives no verdict
C7_FailureGivesNoVerdict ==
  (gPc = "done" /\ gOut.aiCalls = 1 /\ ~AiConforming) => ~gOut.aiResult.verdict

\* C8: an obviously safe input is APPROVED, method pattern, confidence 0.85,
\* and the AI stage is not invoked
C8_SafeShortCircuits ==
  (gPc = "done" /\ isObviouslySafe(gIn.prompt)) =>
     /\ gOut.result.decision = "APPROVED"
     /\ gOut.result.analysisMethod = "pattern"
     /\ gOut.result.confidence = 85
     /\ gOut.aiCalls = 0

\* the question-form scenario, with the AI stage enabled and available
C8_Witness ==
  /\ gPc = "done"
  /\ gIn.prompt = <<"was", "?">>
  /\ gIn.useAiAnalysis /\ gIn.hasApiKey /\ gIn.ai.kind = "json"
  /\ gOut.result.confidence = 85

Min(S) == CHOOSE x \in S : \A y \in S : x <= y

\* C9: the first matching catalog entry wins and the confidence is that
\* entry's severity alone (high 0.95, medium 0.80, low 0.60); "rm -rf /tmp/x"
\* is BLOCKED, DESTRUCTIVE, 0.95, method pattern
C9_FirstMatchWins ==
  /\ gMatch # MatchIdle =>
       LET hits == HitCategories(gIn.prompt) IN
       /\ gMatch.matched <=> hits # {}
       /\ hits # {} =>
            LET first == THREAT_PATTERNS[Min(hits)] IN
            /\ gMatch.category = first.category
            /\ gMatch.confidence =
                 CASE first.severity = "high" -> 95
                   [] first.severity = "medium" -> 80
                   [] first.severity = "low" -> 60
  /\ (gPc = "done" /\ gIn.prompt = <<"rm -rf", "/tmp/x">>) =>
       /\ gOut.result.decision = "BLOCKED"
       /\ gOut.result.reason = "DESTRUCTIVE"
       /\ gOut.result.confidence = 95
       /\ gOut.result.analysisMethod = "pattern"

\* a prompt that matches entries of two categories of different severity
C9_Witness ==
  /\ gMatch # MatchIdle
  /\ gIn.prompt = <<"redesign website", "rm -rf">>
  /\ Cardinality(HitCategories(gIn.prompt)) = 2
  /\ gMatch.category = "DESTRUCTIVE"

\* C10: a verdict of the AI stage decides, with method ai when no pattern
\* matched and hybrid when one matched below the threshold
C10_AiVerdictDecides ==
  (gPc = "done" /\ gOut.aiCalls = 1 /\ gOut.aiResult.verdict) =>
     /\ gOut.result.decision = gOut.aiResult.decision
     /\ gOut.result.analysisMethod =
          IF HitCategories(gIn.prompt) = {} THEN "ai" ELSE "hybrid"

C10_Witness ==
  /\ gPc = "done"
  /\ gOut.aiResult.verdict
  /\ gIn.ai.decision = "BLOCKED"
  /\ gIn.prompt = <<"redesign website">>
  /\ gOut.result.decision = "BLOCKED"
  /\ gOut.result.analysisMethod = "hybrid"


\* C11: every result analyzeRequest returns has a confidence within [0,1],
\* also when the confidence is the one the AI response supplied
C11_ConfidenceInUnitInterval ==
  (gPc = "done" /\ ~gOut.result.threw) =>
     (gOut.result.confidence >= 0 /\ gOut.result.confidence <= 100)


\* ---------------------------------------------------------------------
\* Session store properties
\* ---------------------------------------------------------------------

\* the index as it stands
Index == loadIndex(indexFile)

SessionsQuiet == \A p \in SessionProcs : sPc[p] \in {"done", "failed"}

\* the operations that completed do not touch the same key: no two created
\* the same session id or registered the same message id, no two set the
\* Claude id of the same session
DisjointOps ==
  \A p, q \in SessionProcs :
    (p # q /\ sPc[p] = "done" /\ sPc[q] = "done") =>
      /\ (sOp[p].kind = "createSession" /\ sOp[q].kind = "createSession")
           => sOp[p].sessionId # sOp[q].sessionId
      /\ (sOp[p].messageId # "none") => sOp[p].messageId # sOp[q].messageId
      /\ (sOp[p].kind = "updateClaudeSessionId" /\ sOp[q].kind = "updateClaudeSessionId")
           => sOp[p].sessionId # sOp[q].sessionId

\* the persisted index shows what the completed operation did
EffectPersisted(op) ==
  LET index == loadIndex(indexFile) IN
  /\ op.sessionId \in DOMAIN index.sessions
  /\ op.kind = "createSession" =>
       /\ op.messageId \in DOMAIN index.byMessageId
       /\ index.byMessageId[op.messageId] = op.sessionId
  /\ op.kind = "addMessageToSession" =>
       InSeq(index.sessions[op.sessionId].messageIds, op.messageId)
  /\ op.kind = "updateClaudeSessionId" =>
       index.sessions[op.sessionId].claudeSessionId = op.claudeSessionId

\* C3: after index mutations that ran at the same time, the persisted index
\* holds the effect of every one of them
C3_NoLostUpdate ==
  (SessionsQuiet /\ DisjointOps) =>
     \A p \in SessionProcs : sPc[p] = "done" => EffectPersisted(sOp[p])

\* sessions of which some directory exists
SessionsOnDisk == { d[1] : d \in dirs }

\* C14: every session in the index has both its directories, and layout and
\* index entry come into being together: once the calls have ended, with the
\* index file readable, no session has directories without an index entry
C14_DirsAtomicWithIndex ==
  /\ \A sessionId \in DOMAIN Index.sessions : sessionDirs(sessionId) \subseteq dirs
  /\ (SessionsQuiet /\ indexFile.state # "corrupt") =>
       SessionsOnDisk \subseteq DOMAIN Index.sessions

\* C15: an operation that finds the index file corrupt fails: it does not go
\* on with an empty index, and it does not write over the file
C15_CorruptIndexIsFatal ==
  [][ indexFile.state = "corrupt" =>
        /\ \A p \in SessionProcs :
             (sPc[p] = "load" /\ sPc'[p] # "load") => sPc'[p] = "failed"
        /\ indexFile' = indexFile ]_vars

\* ---------------------------------------------------------------------
\* Orchestrator properties
\* ---------------------------------------------------------------------

Ended(e) == xPc[e] \in {"returned", "thrown"}

NeverExits(e) ==
  /\ containers[e].state = "running" \/ containers[e].exitCode = 137
  /\ ~containers[e].foreign

C1_SessionAndApprovalBeforeExecution ==
  eStart.started => (eStart.sessionId # "none" /\ eStart.guard = "APPROVED")

\* C1 as amended: no execution starts for a request the guardrail analysed
\* and did not approve; the email route starts executions only with a session
\* and an APPROVED classification; the api route skips the classification
\* exactly when skipSafetyCheck is set and runs without a session exactly when
\* the request neither names one nor asks for one; the debug route, off in
\* production, makes a session and does not classify
C1_ExecutionGate ==
  eStart.started =>
    /\ eStart.guard \in {"APPROVED", "skipped"}
    /\ eReq.route = "email" =>
         (eStart.guard = "APPROVED" /\ eStart.sessionId # "none")
    /\ eReq.route = "api" =>
         /\ eStart.guard = "skipped" <=> eReq.skipSafetyCheck
         /\ eStart.sessionId = "none" <=>
              (eReq.sessionId = "none" /\ ~eReq.createSession)
    /\ eReq.route = "debug" =>
         (~eReq.production /\ eStart.guard = "skipped" /\ eStart.sessionId # "none")

\* an email whose prompt the pattern stage leaves to the AI stage, which is
\* unavailable, is executed in a session
C1_Witness ==
  /\ eStart.started
  /\ eReq.route = "email"
  /\ eReq.prompt = <<"redesign website">>
  /\ eReq.ai.kind = "timeout"
  /\ eStart.guard = "APPROVED"
  /\ eStart.sessionId \in SessionIds

\* the session store as it is before the first request
StoreUntouched ==
  indexFile = [ state |-> "missing", content |-> EmptyIndex ] /\ dirs = {}

\* C12: the guardrail runs first and the session store second: while the
\* first request waits for its classification, and after the guardrail has
\* rejected it, the store holds no session, no directory and no index change
C12_GuardBeforeSession ==
  eCount = 1 =>
    /\ ePc = "guard" => StoreUntouched
    /\ eReply = "rejected" => StoreUntouched

\* ---------------------------------------------------------------------
\* Session store properties, calls made one after the other
\* ---------------------------------------------------------------------

\* C13: a session that createSession made has an id that was not a key of
\* the index before, so that no existing entry is overwritten
C13_SessionIdsNeverReused ==
  stLast.isNew => stLast.result \notin DOMAIN stLast.before.sessions

\* the session the byMessageId entry of the id leads to, in that index
Known(index, messageId) ==
  /\ messageId \in DOMAIN index.byMessageId
  /\ index.byMessageId[messageId] \in DOMAIN index.sessions

Resolves(call) == call.op = "getOrCreateSession"
Lookup(call) == call.op = "findSessionByMessageId"
Creates(call) == call.op \in {"createSession", "getOrCreateSession"} /\ call.isNew

\* C16: two resolves in a row with the same inReplyTo id, the id being that
\* of a known thread, give the same session and the second adds no session;
\* two lookups of the same id give the same answer and change nothing
C16_ResolveIdempotent ==
  /\ ( /\ Resolves(stPrev) /\ Resolves(stLast)
       /\ stPrev.inReplyTo # "none" /\ stLast.inReplyTo = stPrev.inReplyTo
       /\ Known(stPrev.before, stPrev.inReplyTo) )
     => /\ stLast.result = stPrev.result
        /\ ~stPrev.isNew /\ ~stLast.isNew
        /\ DOMAIN Index.sessions = DOMAIN stLast.before.sessions
        /\ DOMAIN Index.sessions = DOMAIN stPrev.before.sessions
  /\ (Lookup(stPrev) /\ Lookup(stLast) /\ stLast.messageId = stPrev.messageId)
     => /\ stLast.result = stPrev.result
        /\ Index = stPrev.before

\* an email that answers a message of a known thread is resolved twice
C16_Witness ==
  /\ Resolves(stPrev) /\ Resolves(stLast)
  /\ stPrev.inReplyTo = "m1" /\ stLast.inReplyTo = "m1"
  /\ stPrev.messageId = "m2" /\ stLast.messageId = "m2"
  /\ Known(stPrev.before, "m1")
  /\ stLast.result \in SessionIds
  /\ Cardinality(DOMAIN Index.sessions) = 1

\* C17: right after createSession has returned a session for first message
\* id m, the index leads from m to that session and a lookup by m returns it
C17_CreateThenResolve ==
  /\ Creates(stLast) =>
       /\ Known(Index, stLast.messageId)
       /\ Index.byMessageId[stLast.messageId] = stLast.result
       /\ Index.sessions[stLast.result].originalMessageId = stLast.messageId
  /\ (Creates(stPrev) /\ Lookup(stLast) /\ stLast.messageId = stPrev.messageId)
     => stLast.result = stPrev.result

\* a second session is created and looked up by its message id
C17_Witness ==
  /\ stPrev.op = "createSession" /\ stPrev.messageId = "m2"
  /\ Lookup(stLast) /\ stLast.messageId = "m2"
  /\ stLast.result = stPrev.result
  /\ Cardinality(DOMAIN Index.sessions) = 2

Thread(index, sessionId) == index.sessions[sessionId].messageIds

Range(seq) == { seq[i] : i \in DOMAIN seq }

\* C18: a message with no In-Reply-To and no session tag creates a session
\* whose thread is that one message; a follow-up with an id of its own that
\* answers it resolves to the same session, whose thread then has exactly
\* the two messages
C18_ThreadGrows ==
  /\ ( /\ Resolves(stLast) /\ stLast.inReplyTo = "none"
       /\ \A i \in DOMAIN stLast.subject : Piece(stLast.subject[i]).tag = "none" )
     => /\ stLast.isNew
        /\ Thread(Index, stLast.result) = <<stLast.messageId>>
  /\ ( /\ Resolves(stPrev) /\ stPrev.inReplyTo = "none"
       /\ \A i \in DOMAIN stPrev.subject : Piece(stPrev.subject[i]).tag = "none"
       /\ Resolves(stLast) /\ stLast.inReplyTo = stPrev.messageId
       /\ stLast.messageId # stPrev.messageId )
     => /\ ~stLast.isNew
        /\ stLast.result = stPrev.result
        /\ Thread(Index, stLast.result) = <<stPrev.messageId, stLast.messageId>>

C18_Witness ==
  /\ Resolves(stPrev) /\ stPrev.inReplyTo = "none" /\ stPrev.subject = <<"Re: Aufgabe">>
  /\ stPrev.messageId = "m1" /\ stPrev.isNew
  /\ Resolves(stLast) /\ stLast.inReplyTo = "m1" /\ stLast.messageId = "m2"
  /\ Len(Thread(Index, stLast.result)) = 2

\* what the In-Reply-To header and the subject tag of a call lead to in the
\* index the call found
ByReply(call) ==
  IF call.inReplyTo # "none" /\ Known(call.before, call.inReplyTo)
  THEN call.before.byMessageId[call.inReplyTo]
  ELSE "none"

ByTag(call) ==
  LET tag == extractSessionIdFromSubject(call.subject) IN
  IF tag \in DOMAIN call.before.sessions THEN tag ELSE "none"

\* C19: the session the In-Reply-To header leads to is returned if there is
\* one, also when the subject tag leads to another; otherwise the session of
\* the subject tag if there is one; otherwise no existing session is
\* returned and a new one is made
C19_ReplyBeforeTag ==
  Resolves(stLast) =>
    /\ ByReply(stLast) # "none" => (stLast.result = ByReply(stLast) /\ ~stLast.isNew)
    /\ (ByReply(stLast) = "none" /\ ByTag(stLast) # "none")
         => (stLast.result = ByTag(stLast) /\ ~stLast.isNew)
    /\ (ByReply(stLast) = "none" /\ ByTag(stLast) = "none") => stLast.isNew

\* header and tag lead to two different sessions
C19_Witness ==
  /\ Resolves(stLast)
  /\ ByReply(stLast) \in SessionIds /\ ByTag(stLast) \in SessionIds
  /\ ByReply(stLast) # ByTag(stLast)
  /\ stLast.result = ByReply(stLast)

AddsMessage(call) == call.op = "addMessageToSession" /\ call.result # "error"

\* C20: addMessageToSession appends the id to the thread unless it is there
\* already, so the thread holds no id twice, and sets lastActivityAt to the
\* time of the call; the same call made again leaves the thread as it is
C20_AddMessageIdempotent ==
  /\ \A sessionId \in DOMAIN Index.sessions :
       Cardinality(Range(Thread(Index, sessionId))) = Len(Thread(Index, sessionId))
  /\ AddsMessage(stLast) =>
       LET old == Thread(stLast.before, stLast.sessionId)
           new == Thread(Index, stLast.sessionId)
       IN
       /\ Range(new) = Range(old) \cup {stLast.messageId}
       /\ new = IF stLast.messageId \in Range(old) THEN old
                ELSE Append(old, stLast.messageId)
       /\ Index.sessions[stLast.sessionId].lastActivityAt = stLast.at
       /\ stLast.before.sessions[stLast.sessionId].lastActivityAt < stLast.at
  /\ ( /\ AddsMessage(stPrev) /\ AddsMessage(stLast)
       /\ stLast.sessionId = stPrev.sessionId /\ stLast.messageId = stPrev.messageId )
     => Thread(Index, stLast.sessionId) = Thread(stLast.before, stLast.sessionId)

\* a new message id is added to a thread, then added again
C20_Witness ==
  /\ AddsMessage(stPrev) /\ AddsMessage(stLast)
  /\ stLast.sessionId = stPrev.sessionId /\ stLast.messageId = stPrev.messageId
  /\ stPrev.messageId \notin Range(Thread(stPrev.before, stPrev.sessionId))
  /\ Len(Thread(Index, stLast.sessionId)) = 2

\* C21: once an execution in a session has succeeded with the sandbox
\* reporting a conversation id, the session's entry in the index holds that id
C21_SandboxSessionIdRecorded ==
  ( /\ ePc = "answered" /\ eReply = "completed"
    /\ eRun.claudeSessionId # NoClaudeId
    /\ eSession \in DOMAIN Index.sessions )
  => Index.sessions[eSession].claudeSessionId = eRun.claudeSessionId

\* ---------------------------------------------------------------------
\* Orchestrator: errors, status registry
\* ---------------------------------------------------------------------

\* an awaited operation of the orchestrator failed: the configuration could
\* not be written, the container not created or started, its logs not read,
\* or the timeout passed
OperationFailed(e) == xErr[e] # "none"

\* the sandboxed process exited with a code other than 0
ExitedNonZero(e) == xPc[e] = "returned" /\ containers[e].exitCode # 0

\* C22 as stated: executeTask throws if and only if an orchestrator-level
\* fault occurred, an exit with a non-zero code being one
C22_ThrowsIffFault ==
  \A e \in Execs :
    Ended(e) => (xPc[e] = "thrown" <=> (OperationFailed(e) \/ ExitedNonZero(e)))

\* C22: executeTask throws if and only if an awaited operation of the
\* orchestrator failed or the timeout passed; an exit with a non-zero code is
\* returned as a result with success false; no fault is reported as success;
\* a sandbox that exited with 0 gives a result whatever it printed
C22_ThrowsIffOperationFailed ==
  \A e \in Execs :
    Ended(e) =>
      /\ xPc[e] = "thrown" <=> OperationFailed(e)
      /\ xPc[e] = "thrown" => (registry[e].status # "completed" /\ ~registry[e].success)
      /\ ExitedNonZero(e) =>
           (~xResult[e].success /\ registry[e].status = "failed")
      /\ (xPc[e] = "returned" /\ ~ExitedNonZero(e)) =>
           \E output \in Outputs : xResult[e] = parseSdkOutput(output)

\* one call has thrown after a failed start, another has returned the result
\* of a sandbox that exited with a non-zero code
C22_Witness ==
  /\ \E e \in Execs : xPc[e] = "thrown" /\ xErr[e] = "start failed"
  /\ \E e \in Execs : ExitedNonZero(e) /\ xErr[e] = "none"

\* C23: a call that has returned or thrown has left its registry entry
\* completed (exactly when the result has success true) or failed, never
\* running
C23_NoEntryStaysRunning ==
  \A e \in Execs :
    /\ xPc[e] # "idle" => registry[e].status # "absent"
    /\ Ended(e) =>
         /\ registry[e].status \in {"completed", "failed"}
         /\ registry[e].status = "completed" <=> registry[e].success

\* C24: every registered entry is deleted in the end
C24_EveryEntryEvicted ==
  \A e \in Execs :
    (registry[e].status # "absent") ~> (registry[e].status = "absent")

\* ---------------------------------------------------------------------
\* Results built from the output of the sandbox
\* ---------------------------------------------------------------------

\* the run ended with 0 and its result has been built
ParsedExitZero == pPc = "parsed" /\ pRun.exitCode = 0

\* the first attempt of the script failed: exit code or failure text
FirstAttemptFailed ==
  pRun.first.exitCode # 0 \/ grepAuthFailure(pRun.first.out)

NoStructuredResult ==
  IF pRun.isLegacyImage
  THEN claudeJson(pRun.output.lines) # "parsed"
  ELSE LET found == SelectSeq(pRun.output.lines, sdkMatch)
       IN found = <<>> \/ found[Len(found)] = NotJson

\* the lines of the output that are not the script's own bracketed lines
RemainingLines == SelectSeq(pRun.output.lines, IsResponseLine)

IsSuffix(s, t) == Len(s) <= Len(t) /\ s = sliceLast(t, Len(s))

\* C26: a run that ended with 0 and whose output holds no result object that
\* can be found and parsed gives a result with success true, no error, and a
\* summary taken from the end of the remaining output
C26_UnparsedOutputIsTextSuccess ==
  (ParsedExitZero /\ NoStructuredResult) =>
    /\ pResult.success
    /\ pResult.error = <<>>
    /\ pResult.summary # <<>>
    /\ \/ (RemainingLines = <<>> /\ pResult.summary \in
             {<<"Task completed">>, <<"Aufgabe abgeschlossen">>})
       \/ (RemainingLines # <<>> /\ IsSuffix(pResult.summary, RemainingLines))

\* the SDK image printed text and then braces that are not JSON
C26_Witness ==
  /\ ParsedExitZero /\ ~pRun.isLegacyImage
  /\ pRun.output.lines = <<TextLine, NotJson>>
  /\ pResult.success /\ pResult.summary = <<NotJson>>

\* a result object is found and parsed, and reports success
ValidStructuredResult ==
  IF pRun.isLegacyImage
  THEN claudeJson(pRun.output.lines) = "parsed"
  ELSE LET found == SelectSeq(pRun.output.lines, sdkMatch)
       IN found # <<>> /\ found[Len(found)] = SdkResultTrue

\* C27: a run that ended with 0 and printed a valid result object gives
\* success true, a rawOutput no longer than the tail length, and as
\* filesModified the files of the commit-format lines of the output
C27_ValidOutputResult ==
  (ParsedExitZero /\ ValidStructuredResult) =>
    /\ pResult.success
    /\ Len(pResult.rawOutput.lines) <= RawOutputTail
    /\ pResult.filesModified = commitFiles(pRun.output.lines)

\* C28: no request that was taken up ends without an answer on its reply
\* channel
C28_NoTaskEndsWithoutReply ==
  ePc = "sent" => eSent # "none"

\* ---------------------------------------------------------------------
\* The MCP configuration a session is run with
\* ---------------------------------------------------------------------

Names(servers) == { server.name : server \in servers }

\* the servers the request of the latest execution asks for, and those of
\* its agent
RequestServers == buildMcpJson(mLast.request)

AgentServers == resolveEnvPlaceholders(mLast.agent)

\* C29: when the agent and the request both define servers, the injected
\* file holds the servers of both
C29_InjectedConfigIsMerge ==
  (mCount > 0 /\ RequestServers # {} /\ AgentServers # {}) =>
    Names(RequestServers) \cup Names(AgentServers) \subseteq Names(mFile)

\* C30: after the injection of an execution that has a configuration, the
\* file holds the servers of that configuration and no others
C30_FileHoldsOnlyThisExecution ==
  (mCount > 0 /\ (mLast.request.present \/ mLast.agent.present)) =>
    mFile = (IF mLast.request.present THEN RequestServers ELSE AgentServers)

\* ---------------------------------------------------------------------
\* The result object of the agent runner
\* ---------------------------------------------------------------------

\* the result objects agent-runner.ts prints with JSON.stringify, the one
\* with tool-call records among them
RunnerResults == {SdkResultTrue, SdkResultFalse, SdkResultNested}

\* the SDK image ended with 0 and the last line it printed is its result
RunnerResultLast ==
  /\ ParsedExitZero /\ ~pRun.isLegacyImage
  /\ pRun.output.lines # <<>>
  /\ pRun.output.lines[Len(pRun.output.lines)] \in RunnerResults

\* C33: the success of the result built from a run of the SDK image that
\* ended with 0 is the success field of the result object the agent runner
\* printed last
C33_SuccessIsRunnerSuccess ==
  RunnerResultLast =>
    (pResult.success <=> pRun.output.lines[Len(pRun.output.lines)] = SdkResultTrue)

\* ---------------------------------------------------------------------
\* The blocked categories
\* ---------------------------------------------------------------------

\* the categories documented as blocked; each has an entry in the catalog
BlockedCategories ==
  {"DESTRUCTIVE", "PROMPT_INJECTION", "COMPETENCE_EXCEEDED", "FINANCIAL_RISK",
   "SECURITY_RISK"}

HitsBlockedCategory(prompt) ==
  \E c \in HitCategories(prompt) : THREAT_PATTERNS[c].category \in BlockedCategories

\* C32: an input that matches a catalog pattern of one of the five blocked
\* categories gets the decision BLOCKED from analyzeRequest
C32_CatalogMatchBlocked ==
  (gPc = "done" /\ HitsBlockedCategory(gIn.prompt)) => gOut.result.decision = "BLOCKED"

\* ---------------------------------------------------------------------
\* Sessions and the messages they belong to
\* ---------------------------------------------------------------------

\* the sessions of the index that a message with this id started
StartedBy(index, messageId) ==
  { sessionId \in DOMAIN index.sessions :
      index.sessions[sessionId].originalMessageId = messageId }

\* the store has been called twice, both times to resolve the same message
SameMessageTwice ==
  /\ stCount = 2
  /\ Resolves(stPrev) /\ Resolves(stLast)
  /\ stLast.messageId = stPrev.messageId
  /\ stLast.inReplyTo = stPrev.inReplyTo /\ stLast.subject = stPrev.subject

\* C37: a message that is processed twice gives one session at most: no two
\* sessions of the index have the same thread.originalMessageId
C37_OneSessionPerMessage ==
  SameMessageTwice => Cardinality(StartedBy(Index, stLast.messageId)) <= 1

\* C38: byMessageId[m] = s implies that s is a session of the index and m is
\* in its thread, and every message id of a session's thread leads to that
\* session in byMessageId
C38_IndexReferentialIntegrity ==
  /\ \A m \in DOMAIN Index.byMessageId :
       /\ Index.byMessageId[m] \in DOMAIN Index.sessions
       /\ InSeq(Thread(Index, Index.byMessageId[m]), m)
  /\ \A s \in DOMAIN Index.sessions :
       \A m \in Range(Thread(Index, s)) :
         m \in DOMAIN Index.byMessageId /\ Index.byMessageId[m] = s

\* C34: the api route starts no execution for a request that names a session
\* the index does not hold
C34_UnknownSessionRejected ==
  (eStart.started /\ eReq.route = "api" /\ eReq.sessionId # "none") =>
    eStart.sessionId \in DOMAIN Index.sessions

\* ---------------------------------------------------------------------
\* The containers of executions in flight
\* ---------------------------------------------------------------------

\* C35: the cleanup of a call stops and removes no container but the one
\* the call itself created
C35_CleanupOnlyOwnContainer ==
  \A e \in Execs : ~containers[e].foreign

\* the sandbox of e is running, with the directories of its session mounted
SandboxRunning(e) == containers[e].state = "running" /\ xPc[e] = "wait"

\* C36: no two executions of one session have their sandboxes running, and
\* mounted on the session's workspace and claude-home, at the same time
C36_OneExecutionPerSession ==
  \A e, f \in Execs :
    (e # f /\ SandboxRunning(e) /\ SandboxRunning(f)) =>
      xReq[e].sessionId # xReq[f].sessionId

\* ---------------------------------------------------------------------
\* Placeholders and credentials
\* ---------------------------------------------------------------------

\* the text is one placeholder of the kind and nothing else
IsPlaceholder(text, kind) == Len(text) = 1 /\ text[1].kind = kind

\* the variable of the piece, a placeholder of the kind, has no value
Unset(piece, kind) == piece.kind = kind /\ rIn.env[piece.s] = "unset"

C40_CredentialCopyKept ==
  pPc \in {"exited", "parsed"} => pCred

\* C39: the resume id an execution is started with is the id of the
\* conversation an earlier execution of the session left in its claude-home
C39_ResumeIdIsConversationId ==
  (eStart.started /\ eStart.resume # "none") =>
    eStart.resume = claudeHome[eStart.sessionId]

====
